---------------------------- MODULE Spec2Model ----------------------------
(***************************************************************************)
(* Position Ledger & Order Guard of Agent-Time.                            *)
(*                                                                         *)
(* Each component is modelled with its own specification:                  *)
(*   SpecGuard      - order placement tool, src/agent/tools.py             *)
(*   SpecResolver   - fetch_portfolio_snapshot,                            *)
(*                    src/agent/polymarket/portfolio.py                    *)
(*   SpecAgg        - _build_positions, src/agent/manifold/portfolio.py    *)
(*   SpecManifold   - market payload fetching of the Manifold portfolio    *)
(*   SpecSigner     - _AuthenticatedPolymarketClient request signing       *)
(*   SpecNormalizer - mark price, outcomes and probability derivation      *)
(*   SpecClient     - PolymarketClient._get, src/connectors/polymarket.py  *)
(*   SpecMarket     - _normalize_market, src/connectors/polymarket.py      *)
(*   SpecRunner     - run_multi_agent, src/agent/multi_runner.py           *)
(*   SpecAgent      - ToolAgent.run, src/agents/tool_agent.py              *)
(*                                                                         *)
(* Numbers are fixed point.  Guard: shares in 1e-6 shares, money in        *)
(* 1e-6/PriceDen dollars, a price is pn/PriceDen, the order fraction is    *)
(* fn/FracDen.  Aggregator: shares and mana in 5e-10, probabilities in     *)
(* 1/ProbDen, quotients kept as exact ratios [num, den].                   *)
(* Strings are sequences of characters; Optional values are <<>> (None)    *)
(* or <<v>>.                                                               *)
(***************************************************************************)
EXTENDS Integers, Sequences, FiniteSets, TLC

VARIABLES
    \* ---- order placement tool (SpecGuard)
    env,        \* process environment read by the tool
    intent,     \* keyword arguments of _run_place_order
    pc,         \* position inside _run_place_order
    snapshot,   \* Optional PortfolioSnapshot returned by fetch_portfolio_snapshot
    decision,   \* Optional result of _determine_order_size
    token,      \* Optional resolved token id
    orders,     \* orders posted to the exchange by place_limit_order
    netlog,     \* network calls issued by the invocation, in order
    error,      \* exception message that ended the invocation ("" if none)
    \* ---- endpoint resolver (SpecResolver)
    renv,       \* environment of fetch_portfolio_snapshot
    rpc,        \* position inside fetch_portfolio_snapshot
    attempted,  \* local attempted of _fetch_authenticated_portfolio_payload
    pubIdx,     \* public URL candidates consumed so far by the for loop
    tried_urls, \* local tried_urls
    last_http_exc, \* local last_http_exc: Optional status code
    auth_error, \* local auth_error: Optional exception message
    reqlog,     \* history: URL of every portfolio request issued, in order
    last_status, \* history: Optional status of the latest portfolio request
    result,     \* Optional outcome of the call: snapshot or raised error
    \* ---- position aggregator (SpecAgg)
    markets,    \* market_map handed to _build_positions
    nbets,      \* history: number of fills consumed so far by the loop
    bets,       \* history: the fills consumed so far by the loop, in order
    sawSell,    \* history: a consumed fill had a negative amount
    aggregates, \* local aggregates (insertion ordered dict)
    positions,  \* Optional returned list of PortfolioPosition
    buyOnly,    \* history: aggregates of the same fills with the sells left out
    \* ---- Manifold API helpers (SpecManifold)
    mkey,       \* MANIFOLD_API_KEY is set
    mcall,      \* the invocation: _fetch_markets_for_bets(bets) or _fetch_market_payload(id)
    mpc,        \* position inside the invocation
    midx,       \* loop iterations completed
    market_map, \* local market_map: ids with a stored payload, in insertion order
    mreqs,      \* history: requests issued, [path, status], in order
    mresult,    \* Optional outcome of the invocation
    \* ---- signed Polymarket client (SpecSigner)
    sclient,    \* fields of the _AuthenticatedPolymarketClient instance
    clock,        \* int(time.time()): the clock, in seconds
    sent,       \* history: requests handed to urlopen, in order
    \* ---- market normalisers (SpecNormalizer)
    npayload,   \* the raw market payload
    nlabel,     \* the outcome label asked for
    nout,       \* Optional result: the normaliser applied and the prices it gave
    \* ---- Polymarket connector client (SpecClient)
    _active_root,   \* PolymarketClient._active_root ("" before construction)
    _fallback_root, \* PolymarketClient._fallback_root, Optional
    _last_error,    \* PolymarketClient._last_error, Optional
    roots0,     \* history: _candidate_roots() right after construction
    getlog,     \* history: per _get call, the URLs requested and how it ended
    \* ---- Polymarket market normaliser (SpecMarket)
    cpayload,   \* the raw market payload handed to _normalize_market
    normalized, \* Optional outcome of _normalize_market: the market or the error raised
    \* ---- multi-agent runner (SpecRunner)
    configs,    \* the agent configurations handed to run_multi_agent
    os_environ, \* os.environ: MANIFOLD_API_KEY and AGENT_KEY, each Optional
    runpc,      \* position inside run_multi_agent
    cfgIdx,     \* agents whose loop iteration is complete
    manifold_key,\* local manifold_key of the current iteration
    previous,   \* local previous of _temporary_env
    session,    \* Optional outcome of run_daily_session in the current iteration
    results_file,\* the records appended to results_path, in order
    environ0,   \* history: os.environ when run_multi_agent was called
    sessions,   \* history: per session started, the agent and the MANIFOLD_API_KEY it ran with
    \* ---- tool agent loop (SpecAgent)
    _max_steps, \* ToolAgent._max_steps
    apc,        \* position inside ToolAgent.run
    messages,   \* local messages: the roles of the messages, in order
    round_trips,\* history: calls of _chat made so far
    replies,    \* history: the replies _chat returned, in order
    tool_runs,  \* history: per reply, the number of tool handlers invoked
    run_result  \* Optional outcome of run: the value returned or the error raised

guardVars == <<env, intent, pc, snapshot, decision, token, orders, netlog, error>>
resolverVars ==
    <<renv, rpc, attempted, pubIdx, tried_urls, last_http_exc, auth_error, reqlog,
      last_status, result>>
aggVars == <<markets, nbets, bets, sawSell, aggregates, positions, buyOnly>>
manifoldVars == <<mkey, mcall, mpc, midx, market_map, mreqs, mresult>>
signerVars == <<sclient, clock, sent>>
normVars == <<npayload, nlabel, nout>>
clientVars == <<_active_root, _fallback_root, _last_error, roots0, getlog>>
marketVars == <<cpayload, normalized>>
runnerVars == <<configs, os_environ, runpc, cfgIdx, manifold_key, previous, session, results_file, environ0, sessions>>
agentVars == <<_max_steps, apc, messages, round_trips, replies, tool_runs, run_result>>
vars ==
    <<guardVars, resolverVars, aggVars, manifoldVars, signerVars, normVars,
      clientVars, marketVars, runnerVars, agentVars>>

\* what the actions of one component leave alone
notGuard ==
    <<resolverVars, aggVars, manifoldVars, signerVars, normVars, clientVars,
      marketVars, runnerVars, agentVars>>
notResolver ==
    <<guardVars, aggVars, manifoldVars, signerVars, normVars, clientVars, marketVars,
      runnerVars, agentVars>>
notAgg ==
    <<guardVars, resolverVars, manifoldVars, signerVars, normVars, clientVars,
      marketVars, runnerVars, agentVars>>
notManifold ==
    <<guardVars, resolverVars, aggVars, signerVars, normVars, clientVars, marketVars,
      runnerVars, agentVars>>
notSigner ==
    <<guardVars, resolverVars, aggVars, manifoldVars, normVars, clientVars,
      marketVars, runnerVars, agentVars>>
notNorm ==
    <<guardVars, resolverVars, aggVars, manifoldVars, signerVars, clientVars,
      marketVars, runnerVars, agentVars>>
notClient ==
    <<guardVars, resolverVars, aggVars, manifoldVars, signerVars, normVars,
      marketVars, runnerVars, agentVars>>
notMarket ==
    <<guardVars, resolverVars, aggVars, manifoldVars, signerVars, normVars,
      clientVars, runnerVars, agentVars>>
notRunner ==
    <<guardVars, resolverVars, aggVars, manifoldVars, signerVars, normVars,
      clientVars, marketVars, agentVars>>
notAgent ==
    <<guardVars, resolverVars, aggVars, manifoldVars, signerVars, normVars,
      clientVars, marketVars, runnerVars>>

-----------------------------------------------------------------------------
(* Optional values and strings *)

None == <<>>
Some(v) == <<v>>
IsNone(o) == o = <<>>
Get(o) == o[1]

Abs(x) == IF x < 0 THEN -x ELSE x

\* str.lower() / str.upper() on the characters the model uses
LowerChar(c) ==
    CASE c = "Y" -> "y" [] c = "E" -> "e" [] c = "S" -> "s" [] c = "N" -> "n"
      [] c = "O" -> "o" [] c = "A" -> "a" [] c = "B" -> "b" [] c = "X" -> "x"
      [] OTHER -> c
UpperChar(c) ==
    CASE c = "y" -> "Y" [] c = "e" -> "E" [] c = "s" -> "S" [] c = "n" -> "N"
      [] c = "o" -> "O" [] c = "a" -> "A" [] c = "b" -> "B" [] c = "x" -> "X"
      [] OTHER -> c
Lower(s) == [i \in DOMAIN s |-> LowerChar(s[i])]
Upper(s) == [i \in DOMAIN s |-> UpperChar(s[i])]

\* str.strip(): drop leading and trailing blanks
RECURSIVE LStrip(_)
LStrip(s) == IF s # <<>> /\ Head(s) = " " THEN LStrip(Tail(s)) ELSE s
RECURSIVE RStrip(_)
RStrip(s) ==
    IF s # <<>> /\ s[Len(s)] = " " THEN RStrip(SubSeq(s, 1, Len(s) - 1)) ELSE s
Strip(s) == RStrip(LStrip(s))

\* str.startswith
StartsWith(s, p) == Len(s) >= Len(p) /\ SubSeq(s, 1, Len(p)) = p

S_0xa == <<"0", "x", "a">>
S_0xA == <<"0", "x", "A">>
S_Yes == <<"Y", "e", "s">>
S_YESsp == <<"Y", "E", "S", " ">>
S_yes == <<"y", "e", "s">>
S_No == <<"N", "o">>
S_YES == <<"Y", "E", "S">>
S_NO == <<"N", "O">>
S_0x == <<"0", "x">>

-----------------------------------------------------------------------------
(* Order guard: src/agent/tools.py *)

\* 1.0 share in share units (1e-6 shares)
ShareScale == 1000000
\* prices are pn / PriceDen
PriceDen == 4
\* 1.0 dollar in money units
Dollar == ShareScale * PriceDen
\* the order fraction is fn / FracDen
FracDen == 4
\* default of AGENT_MAX_ORDER_FRACTION, "0.5", as fn
DefaultMaxFraction == 2
\* the oversell tolerance 1e-6 in share units
SellTolerance == 1

\* cited holds the amounts a rejection message quotes: <<spend, max_allowed>>,
\* max_allowed as cash * fn (money units / FracDen)
Approved(sh, spend) ==
    [ok |-> TRUE, shares |-> sh, notional |-> spend, reason |-> "", cited |-> None]
Rejected(why) ==
    [ok |-> FALSE, shares |-> 0, notional |-> 0, reason |-> why, cited |-> None]
\* "Order notional ${spend} exceeds allowed spend ${max_allowed} (max fraction ..)"
RejectedOverCap(spend, max_allowed) ==
    [ok |-> FALSE, shares |-> 0, notional |-> 0,
     reason |-> "Order notional exceeds allowed spend", cited |-> Some(<<spend, max_allowed>>)]

\* owned += position.shares over the positions matching market and outcome
RECURSIVE Owned(_, _, _)
Owned(ps, market_id, target) ==
    IF ps = <<>> THEN 0
    ELSE LET position == Head(ps)
             hit == /\ position.market_id = market_id
                    /\ Lower(Strip(position.outcome)) = target
         IN (IF hit THEN position.shares ELSE 0) + Owned(Tail(ps), market_id, target)

\* float(os.environ.get("AGENT_MAX_ORDER_FRACTION", "0.5"))
MaxFraction(e) ==
    IF IsNone(e.AGENT_MAX_ORDER_FRACTION) THEN DefaultMaxFraction
    ELSE Get(e.AGENT_MAX_ORDER_FRACTION)

\* cash_available = snapshot.cash_balance or 0.0
CashAvailable(snap) == IF IsNone(snap.cash_balance) THEN 0 ELSE Get(snap.cash_balance)

\* mutant: the bankroll cap ignores the order fraction
DetermineBuy_NoFraction(price, shares, stake_usd, snap, max_fraction) ==
    IF IsNone(shares) /\ IsNone(stake_usd)
    THEN Rejected("Provide shares or stake_usd for BUY orders.")
    ELSE LET computed_shares == IF IsNone(shares) THEN Get(stake_usd) \div price
                                ELSE Get(shares)
             spend == computed_shares * price
             cash_available == CashAvailable(snap)
         IN IF cash_available <= 0 THEN Rejected("No cash available to buy.")
            ELSE IF spend > cash_available
                 THEN RejectedOverCap(spend, cash_available * FracDen)
                 ELSE Approved(computed_shares, spend)

\* mutant: a stake is taken as the share count, as the SELL branch does
DetermineBuy_StakeAsShares(price, shares, stake_usd, snap, max_fraction) ==
    IF IsNone(shares) /\ IsNone(stake_usd)
    THEN Rejected("Provide shares or stake_usd for BUY orders.")
    ELSE LET computed_shares == IF IsNone(shares) THEN Get(stake_usd) \div PriceDen
                                ELSE Get(shares)
             spend == computed_shares * price
             cash_available == CashAvailable(snap)
         IN IF cash_available <= 0 THEN Rejected("No cash available to buy.")
            ELSE IF spend * FracDen > cash_available * max_fraction
                 THEN RejectedOverCap(spend, cash_available * max_fraction)
                 ELSE Approved(computed_shares, spend)

DetermineBuy(price, shares, stake_usd, snap, max_fraction) ==
    IF IsNone(shares) /\ IsNone(stake_usd)
    THEN Rejected("Provide shares or stake_usd for BUY orders.")
    ELSE LET computed_shares == IF IsNone(shares) THEN Get(stake_usd) \div price
                                ELSE Get(shares)
             spend == computed_shares * price
             cash_available == CashAvailable(snap)
         IN IF cash_available <= 0 THEN Rejected("No cash available to buy.")
            ELSE IF spend * FracDen > cash_available * max_fraction
                 THEN RejectedOverCap(spend, cash_available * max_fraction)
                 ELSE Approved(computed_shares, spend)

\* mutant: the oversell check is missing
DetermineSell_NoOversell(price, shares, stake_usd, snap, market_id, outcome) ==
    LET computed_shares ==
            IF IsNone(shares) /\ ~IsNone(stake_usd)
            THEN Some(Get(stake_usd) \div PriceDen)
            ELSE shares
    IN IF IsNone(computed_shares) THEN Rejected("Provide shares when selling.")
       ELSE LET owned == Owned(snap.positions, market_id, Lower(Strip(outcome)))
            IN IF owned <= 0 THEN Rejected("No matching position to sell.")
               ELSE Approved(Get(computed_shares), Get(computed_shares) * price)

DetermineSell(price, shares, stake_usd, snap, market_id, outcome) ==
    LET computed_shares ==
            IF IsNone(shares) /\ ~IsNone(stake_usd)
            THEN Some(Get(stake_usd) \div PriceDen)
            ELSE shares
    IN IF IsNone(computed_shares) THEN Rejected("Provide shares when selling.")
       ELSE LET owned == Owned(snap.positions, market_id, Lower(Strip(outcome)))
            IN IF owned <= 0 THEN Rejected("No matching position to sell.")
               ELSE IF Get(computed_shares) - owned > SellTolerance
                    THEN Rejected("Attempting to sell more shares than available")
                    ELSE Approved(Get(computed_shares), Get(computed_shares) * price)

\* mutant: the size is computed but neither bankroll nor inventory is checked
DetermineOrderSize_Unguarded(side, price, shares, stake_usd, snap, market_id, outcome, max_fraction) ==
    IF IsNone(shares) /\ IsNone(stake_usd) THEN Rejected("Provide a size.")
    ELSE LET computed_shares ==
                 IF ~IsNone(shares) THEN Get(shares)
                 ELSE IF side = "BUY" THEN Get(stake_usd) \div price
                 ELSE Get(stake_usd) \div PriceDen
         IN Approved(computed_shares, computed_shares * price)

_determine_order_size(side, price, shares, stake_usd, snap, market_id, outcome, max_fraction) ==
    IF side = "BUY"
    THEN DetermineBuy(price, shares, stake_usd, snap, max_fraction)
    ELSE DetermineSell(price, shares, stake_usd, snap, market_id, outcome)


\* find_token_id, then the case-insensitive lookup of _run_place_order:
\* the first token record whose outcome name matches the label
RECURSIVE FindToken(_, _)
FindToken(records, target) ==
    IF records = <<>> THEN None
    ELSE IF Lower(Strip(Head(records).outcome)) = target
         THEN Some(Head(records).token_id)
         ELSE FindToken(Tail(records), target)

\* _build_clob_client raises unless every trading credential is set
HasTradingCreds(e) == e.trading_creds /\ ~IsNone(e.POLYMARKET_WALLET_ADDRESS)

\* ---- inputs of the tool
Prices == {0, 1, 2, PriceDen}
ShareInputs ==
    {None, Some(5 * ShareScale), Some(5 * ShareScale + 1), Some(5 * ShareScale + 2),
     Some(10 * ShareScale)}
StakeInputs == {None, Some(5 * Dollar), Some(100 * Dollar)}
Sides == {"BUY", "SELL", "HOLD"}
MarketIds == {S_0xa, <<"a">>}
Outcomes == {S_yes, S_No}
Intents ==
    [market_id : MarketIds, outcome : Outcomes, token_id : {None, Some("tok")},
     side : Sides, price : Prices, shares : ShareInputs, stake_usd : StakeInputs]
Envs ==
    [POLYMARKET_WALLET_ADDRESS : {None, Some(S_0xa)},
     trading_creds : BOOLEAN,
     AGENT_MAX_ORDER_FRACTION : {None, Some(1)}]

\* ---- portfolio snapshots the portfolio API can answer with
MaxPositions == 2
PositionPool ==
    { [market_id |-> S_0xa, outcome |-> S_Yes, shares |-> 5 * ShareScale],
      [market_id |-> S_0xa, outcome |-> S_YESsp, shares |-> 5 * ShareScale],
      [market_id |-> S_0xA, outcome |-> S_Yes, shares |-> 5 * ShareScale],
      [market_id |-> S_0xa, outcome |-> S_No, shares |-> -5 * ShareScale] }
CashPool == {None, Some(0), Some(5 * Dollar), Some(150 * Dollar)}
PositionLists == UNION { [1..n -> PositionPool] : n \in 0..MaxPositions }
Snapshots == [cash_balance : CashPool, positions : PositionLists]

\* token records a market payload can carry
TokenPayloads ==
    { <<>>,
      << [outcome |-> S_Yes, token_id |-> "tokYes"],
         [outcome |-> S_No, token_id |-> "tokNo"] >> }

InitGuardVars ==
    /\ env \in Envs
    /\ intent \in Intents
    /\ pc = "start"
    /\ snapshot = None
    /\ decision = None
    /\ token = None
    /\ orders = <<>>
    /\ netlog = <<>>
    /\ error = ""

IdleGuardVars ==
    /\ env = [POLYMARKET_WALLET_ADDRESS |-> None, trading_creds |-> FALSE,
              AGENT_MAX_ORDER_FRACTION |-> None]
    /\ intent = [market_id |-> S_0xa, outcome |-> S_yes, token_id |-> None,
                 side |-> "BUY", price |-> 1, shares |-> None, stake_usd |-> None]
    /\ pc = "idle"
    /\ snapshot = None
    /\ decision = None
    /\ token = None
    /\ orders = <<>>
    /\ netlog = <<>>
    /\ error = ""

Raise(msg) == pc' = "raised" /\ error' = msg

\* mutant: the upper price bound is inclusive
PriceOutOfRange_UpperInclusive(price) == price <= 0 \/ price > PriceDen

\* _run_place_order, line 223: price <= 0 or price >= 1
PriceOutOfRange(price) == price <= 0 \/ price >= PriceDen

\* _run_place_order, lines 211-224: wallet, market id, side and price checks
ValidateOrder ==
    /\ UNCHANGED notGuard
    /\ pc = "start"
    /\ IF IsNone(env.POLYMARKET_WALLET_ADDRESS)
       THEN Raise("Set POLYMARKET_WALLET_ADDRESS before placing orders.")
       ELSE IF ~StartsWith(Strip(intent.market_id), S_0x)
       THEN Raise("market_id must be the Polymarket condition ID (starts with 0x).")
       ELSE IF intent.side \notin {"BUY", "SELL"}
       THEN Raise("side must be BUY or SELL.")
       ELSE IF PriceOutOfRange(intent.price)
       THEN Raise("price must be between 0 and 1.")
       ELSE pc' = "fetch" /\ error' = error
    /\ UNCHANGED <<env, intent, snapshot, decision, token, orders, netlog>>

\* _run_place_order, line 225: snapshot = fetch_portfolio_snapshot(wallet)
FetchPortfolio ==
    /\ UNCHANGED notGuard
    /\ pc = "fetch"
    /\ netlog' = Append(netlog, "portfolio")
    /\ \/ \E snap \in Snapshots :
            /\ snapshot' = Some(snap)
            /\ pc' = "size"
            /\ error' = error
       \/ /\ Raise("Portfolio API request failed")
          /\ snapshot' = snapshot
    /\ UNCHANGED <<env, intent, decision, token, orders>>

\* mutant: an approved BUY reserves its notional in the snapshot
SizeOrder_ReservesCash ==
    /\ UNCHANGED notGuard
    /\ pc = "size"
    /\ LET d == _determine_order_size(intent.side, intent.price, intent.shares,
                                      intent.stake_usd, Get(snapshot),
                                      intent.market_id, intent.outcome, MaxFraction(env))
       IN /\ decision' = Some(d)
          /\ IF d.ok THEN pc' = "token" /\ error' = error ELSE Raise(d.reason)
          /\ snapshot' =
                IF d.ok /\ intent.side = "BUY"
                THEN Some([Get(snapshot) EXCEPT
                              !.cash_balance = Some(Get(@) - d.notional)])
                ELSE snapshot
    /\ UNCHANGED <<env, intent, token, orders, netlog>>

\* _run_place_order, lines 226-234: the guard
SizeOrder ==
    /\ UNCHANGED notGuard
    /\ pc = "size"
    /\ LET d == _determine_order_size(intent.side, intent.price, intent.shares,
                                      intent.stake_usd, Get(snapshot),
                                      intent.market_id, intent.outcome, MaxFraction(env))
       IN /\ decision' = Some(d)
          /\ IF d.ok THEN pc' = "token" /\ error' = error ELSE Raise(d.reason)
    /\ UNCHANGED <<env, intent, snapshot, token, orders, netlog>>

\* _run_place_order, lines 235-247: token id resolution
ResolveToken ==
    /\ UNCHANGED notGuard
    /\ pc = "token"
    /\ IF ~IsNone(intent.token_id)
       THEN /\ token' = intent.token_id
            /\ pc' = "place"
            /\ UNCHANGED <<netlog, error>>
       ELSE IF ~HasTradingCreds(env)
       THEN /\ Raise("Trading requires POLYMARKET_PRIVATE_KEY and API credentials.")
            /\ UNCHANGED <<token, netlog>>
       ELSE /\ netlog' = Append(netlog, "get_market")
            /\ \/ \E records \in TokenPayloads :
                    IF records = <<>>
                    THEN Raise("Unable to resolve tokens for market") /\ token' = token
                    ELSE LET found == FindToken(records, Lower(Strip(intent.outcome)))
                         IN IF IsNone(found)
                            THEN Raise("Unable to resolve token ID for outcome")
                                 /\ token' = token
                            ELSE token' = found /\ pc' = "place" /\ error' = error
               \/ Raise("market request failed") /\ token' = token
    /\ UNCHANGED <<env, intent, snapshot, decision, orders>>

\* place_limit_order (src/agent/polymarket/trading.py) as called at line 248
PlaceLimitOrder ==
    /\ UNCHANGED notGuard
    /\ pc = "place"
    /\ LET shares == Get(decision).shares
       IN IF shares <= 0
          THEN Raise("shares must be positive") /\ UNCHANGED <<orders, netlog>>
          ELSE IF intent.price <= 0 \/ intent.price >= PriceDen
          THEN Raise("price must be between 0 and 1 (exclusive)")
               /\ UNCHANGED <<orders, netlog>>
          ELSE IF ~HasTradingCreds(env)
          THEN Raise("Trading requires POLYMARKET_PRIVATE_KEY and API credentials.")
               /\ UNCHANGED <<orders, netlog>>
          ELSE IF intent.side \notin {"BUY", "SELL"}
          THEN Raise("side must be BUY or SELL") /\ UNCHANGED <<orders, netlog>>
          ELSE /\ orders' = Append(orders, [token_id |-> Get(token), price |-> intent.price,
                                            size |-> shares, side |-> intent.side])
               /\ netlog' = Append(netlog, "post_order")
               /\ \/ pc' = "done" /\ error' = error
                  \/ Raise("order submission failed")
    /\ UNCHANGED <<env, intent, snapshot, decision, token>>

NextGuard == ValidateOrder \/ FetchPortfolio \/ SizeOrder \/ ResolveToken \/ PlaceLimitOrder

-----------------------------------------------------------------------------
(* Endpoint resolver: src/agent/polymarket/portfolio.py *)

DEFAULT_API_ROOT == "https://clob.polymarket.com"
PORTFOLIO_URL_TEMPLATES ==
    << "https://clob.polymarket.com/positions?wallet={wallet}",
       "https://clob.polymarket.com/positions/{wallet}",
       "https://gamma-api.polymarket.com/portfolio/{wallet}",
       "https://gamma-api.polymarket.com/portfolio?wallet={wallet}" >>
DATA_API_TEMPLATES ==
    << "https://data-api.polymarket.com/positions?user={wallet}",
       "https://data-api.polymarket.com/positions?wallet={wallet}",
       "https://data-api.polymarket.com/positions?address={wallet}",
       "https://data-api.polymarket.com/positions?user={wallet}&sizeThreshold=0.1&limit=200" >>
AUTH_PORTFOLIO_PATH_TEMPLATES ==
    << "/api/v1/portfolio/balances",
       "/api/v1/portfolio/positions",
       "/api/v1/portfolio",
       "/api/v1/portfolio/{wallet}",
       "/api/v1/portfolio?wallet={wallet}",
       "/api/v1/users/me/portfolio" >>

\* a value of POLYMARKET_PORTFOLIO_URL that carries no {wallet} placeholder
CUSTOM_URL == "https://portfolio.example.org/api"

\* "{wallet}" in template
HasPlaceholder(template) ==
    \/ \E i \in DOMAIN PORTFOLIO_URL_TEMPLATES : PORTFOLIO_URL_TEMPLATES[i] = template
    \/ \E i \in DOMAIN DATA_API_TEMPLATES : DATA_API_TEMPLATES[i] = template
    \/ template \in { "/api/v1/portfolio/{wallet}", "/api/v1/portfolio?wallet={wallet}" }

\* list membership
InSeq(x, seq) == \E i \in DOMAIN seq : seq[i] = x

\* _unique_wallet_variants: (wallet, wallet.lower()) without repetition
_unique_wallet_variants(wallet) ==
    LET first == IF wallet # <<>> THEN <<wallet>> ELSE <<>>
        low == Lower(wallet)
    IN IF low # <<>> /\ ~InSeq(low, first) THEN Append(first, low) ELSE first

\* the inner loop of _portfolio_url_candidates for one template
RECURSIVE FormatAll(_, _)
FormatAll(template, variants) ==
    IF variants = <<>> THEN <<>>
    ELSE << IF HasPlaceholder(template)
            THEN <<template, Head(variants)>>
            ELSE <<template, "?wallet=", Head(variants)>> >>
         \o FormatAll(template, Tail(variants))

RECURSIVE UrlsOf(_, _)
UrlsOf(templates, variants) ==
    IF templates = <<>> THEN <<>>
    ELSE FormatAll(Head(templates), variants) \o UrlsOf(Tail(templates), variants)

\* _portfolio_url_candidates: the override first, then both template lists;
\* no URL is dropped, repeated or not
_portfolio_url_candidates(wallet, override) ==
    LET templates == (IF IsNone(override) THEN <<>> ELSE <<Get(override)>>)
                     \o PORTFOLIO_URL_TEMPLATES \o DATA_API_TEMPLATES
    IN UrlsOf(templates, _unique_wallet_variants(wallet))

\* _auth_portfolio_paths: like the above, but a path already seen is skipped
RECURSIVE AuthPathsFrom(_, _, _)
AuthPathsFrom(templates, variants, paths) ==
    IF templates = <<>> THEN paths
    ELSE LET template == Head(templates)
             cands == IF HasPlaceholder(template)
                      THEN FormatAll(template, variants)
                      ELSE << <<template>> >>
             fresh == SelectSeq(cands, LAMBDA c : ~InSeq(c, paths))
         IN AuthPathsFrom(Tail(templates), variants, paths \o fresh)

_auth_portfolio_paths(wallet) ==
    AuthPathsFrom(AUTH_PORTFOLIO_PATH_TEMPLATES, _unique_wallet_variants(wallet), <<>>)

\* f"{api_root}{path}"
AuthUrl(path) == <<DEFAULT_API_ROOT>> \o path

\* _has_auth_credentials
_has_auth_credentials(e) == e.has_auth

PublicStatuses == {"200", "204", "404", "405", "500", "neterr"}
AuthStatuses == {"200", "401", "403", "404", "500", "neterr"}
PayloadCash == {None, Some(150 * Dollar)}

REnvs ==
    [wallet : {S_0xa, S_0xA},
     has_auth : BOOLEAN,
     POLYMARKET_PORTFOLIO_URL : {None, Some(CUSTOM_URL), Some(PORTFOLIO_URL_TEMPLATES[1])}]

InitResolverVars ==
    /\ renv \in REnvs
    /\ rpc = "start"
    /\ attempted = <<>>
    /\ pubIdx = 0
    /\ tried_urls = <<>>
    /\ last_http_exc = None
    /\ auth_error = None
    /\ reqlog = <<>>
    /\ last_status = None
    /\ result = None

IdleResolverVars ==
    /\ renv = [wallet |-> S_0xa, has_auth |-> FALSE, POLYMARKET_PORTFOLIO_URL |-> None]
    /\ rpc = "idle"
    /\ attempted = <<>>
    /\ pubIdx = 0
    /\ tried_urls = <<>>
    /\ last_http_exc = None
    /\ auth_error = None
    /\ reqlog = <<>>
    /\ last_status = None
    /\ result = None

Candidates == _portfolio_url_candidates(renv.wallet, renv.POLYMARKET_PORTFOLIO_URL)
AuthPaths == _auth_portfolio_paths(renv.wallet)

SnapshotResult(url, cash) == [kind |-> "snapshot", url |-> url, cash_balance |-> cash, listed |-> <<>>]
ErrorResult(msg, urls) == [kind |-> "error", url |-> <<>>, cash_balance |-> None, listed |-> urls]

\* lines 146-152: entry of fetch_portfolio_snapshot
StartFetch ==
    /\ UNCHANGED notResolver
    /\ rpc = "start"
    /\ rpc' = IF _has_auth_credentials(renv) THEN "auth" ELSE "public"
    /\ UNCHANGED <<renv, attempted, pubIdx, tried_urls, last_http_exc, auth_error,
                   reqlog, last_status, result>>

\* lines 157-160 and 178-181: parse the payload, fill in the cash balance, return.
\* _fetch_cash_balance issues a signed balance request only with credentials.
ReturnSnapshot(url, tried) ==
    \E cash \in PayloadCash :
        \/ /\ result' = Some(SnapshotResult(url, cash))
           /\ rpc' = "done"
           /\ tried_urls' = tried
           /\ UNCHANGED <<auth_error, pubIdx>>
        \/ /\ IsNone(cash) /\ _has_auth_credentials(renv)
           /\ result' = Some(SnapshotResult(url, Some(20 * Dollar)))
           /\ rpc' = "done"
           /\ tried_urls' = tried
           /\ UNCHANGED <<auth_error, pubIdx>>

\* mutant: an authenticated request that fails with another HTTP status or a
\* network error ends the call instead of falling back to the public URLs
AuthRequest_FailureAborts ==
    /\ UNCHANGED notResolver
    /\ rpc = "auth"
    /\ Len(attempted) < Len(AuthPaths)
    /\ LET path == AuthPaths[Len(attempted) + 1]
           url == AuthUrl(path)
           now == Append(attempted, url)
       IN /\ attempted' = now
          /\ reqlog' = Append(reqlog, url)
          /\ \E status \in AuthStatuses :
                /\ last_status' = Some(status)
                /\ IF status = "200"
                   THEN \/ ReturnSnapshot(url, tried_urls \o now)
                        \/ \* _fetch_cash_balance raised after the payload was parsed
                           /\ tried_urls' = tried_urls \o now
                           /\ auth_error' = Some("balance lookup failed")
                           /\ rpc' = "public"
                           /\ UNCHANGED <<result, pubIdx>>
                   ELSE IF status \in {"401", "403", "404", "405"}
                   THEN IF Len(now) < Len(AuthPaths)
                        THEN UNCHANGED <<rpc, auth_error, tried_urls, result, pubIdx>>
                        ELSE /\ auth_error' = Some("Authenticated portfolio endpoints exhausted.")
                             /\ rpc' = "public"
                             /\ UNCHANGED <<tried_urls, result, pubIdx>>
                   ELSE /\ auth_error' =
                              Some(IF status = "neterr"
                                   THEN "Network error contacting authenticated Polymarket API"
                                   ELSE "Authenticated portfolio request failed")
                        /\ rpc' = "done"
                        /\ result' = Some(ErrorResult("Authenticated portfolio request failed",
                                                      now))
                        /\ UNCHANGED <<tried_urls, pubIdx>>
    /\ UNCHANGED <<renv, last_http_exc>>

\* one iteration of the loop of _fetch_authenticated_portfolio_payload
\* (lines 438-449) with its caller's handling (lines 153-162)
AuthRequest ==
    /\ UNCHANGED notResolver
    /\ rpc = "auth"
    /\ Len(attempted) < Len(AuthPaths)
    /\ LET path == AuthPaths[Len(attempted) + 1]
           url == AuthUrl(path)
           now == Append(attempted, url)
       IN /\ attempted' = now
          /\ reqlog' = Append(reqlog, url)
          /\ \E status \in AuthStatuses :
                /\ last_status' = Some(status)
                /\ IF status = "200"
                   THEN \/ ReturnSnapshot(url, tried_urls \o now)
                        \/ \* _fetch_cash_balance raised after the payload was parsed
                           /\ tried_urls' = tried_urls \o now
                           /\ auth_error' = Some("balance lookup failed")
                           /\ rpc' = "public"
                           /\ UNCHANGED <<result, pubIdx>>
                   ELSE IF status \in {"401", "403", "404", "405"}
                   THEN IF Len(now) < Len(AuthPaths)
                        THEN UNCHANGED <<rpc, auth_error, tried_urls, result, pubIdx>>
                        ELSE /\ auth_error' = Some("Authenticated portfolio endpoints exhausted.")
                             /\ rpc' = "public"
                             /\ UNCHANGED <<tried_urls, result, pubIdx>>
                   ELSE /\ auth_error' =
                              Some(IF status = "neterr"
                                   THEN "Network error contacting authenticated Polymarket API"
                                   ELSE "Authenticated portfolio request failed")
                        /\ rpc' = "public"
                        /\ UNCHANGED <<tried_urls, result, pubIdx>>
    /\ UNCHANGED <<renv, last_http_exc>>

\* one iteration of the for loop over _portfolio_url_candidates (lines 164-189)
PublicRequest ==
    /\ UNCHANGED notResolver
    /\ rpc = "public"
    /\ pubIdx < Len(Candidates)
    /\ LET url == Candidates[pubIdx + 1]
           tried == Append(tried_urls, url)
       IN /\ reqlog' = Append(reqlog, url)
          /\ \E status \in PublicStatuses :
                /\ last_status' = Some(status)
                /\ IF status = "200"
                   THEN /\ ReturnSnapshot(url, tried)
                        /\ UNCHANGED last_http_exc
                   ELSE IF status \in {"404", "405"}
                   THEN /\ last_http_exc' = Some(status)
                        /\ pubIdx' = pubIdx + 1
                        /\ tried_urls' = tried
                        /\ UNCHANGED <<rpc, result, auth_error>>
                   ELSE /\ last_http_exc' = IF status = "500" THEN Some(status) ELSE last_http_exc
                        /\ tried_urls' = tried
                        /\ rpc' = "done"
                        /\ result' = Some(ErrorResult(
                               CASE status = "500" -> "Portfolio API request failed"
                                 [] status = "neterr" -> "Network error contacting portfolio API"
                                 [] OTHER -> "Portfolio API returned",
                               IF status = "204" THEN <<>> ELSE <<url>>))
                        /\ UNCHANGED <<auth_error, pubIdx>>
    /\ UNCHANGED <<renv, attempted>>

\* lines 191-203: every candidate answered 404/405
RaiseExhausted ==
    /\ UNCHANGED notResolver
    /\ rpc = "public"
    /\ pubIdx = Len(Candidates)
    /\ rpc' = "done"
    /\ result' = Some(ErrorResult("Portfolio API request failed for all endpoints.", tried_urls))
    /\ UNCHANGED <<renv, attempted, pubIdx, tried_urls, last_http_exc, auth_error,
                   reqlog, last_status>>

NextResolver == StartFetch \/ AuthRequest \/ PublicRequest \/ RaiseExhausted

-----------------------------------------------------------------------------
(* Position aggregator: src/agent/manifold/portfolio.py *)

\* probabilities are pm / ProbDen
ProbDen == 10
\* abs(shares_delta) < 1e-9, in units of 5e-10 shares
NoiseThreshold == 2
\* abs(shares) < 1e-6, in units of 5e-10 shares
ClosedThreshold == 2000

Ratio(n, d) == [num |-> n, den |-> d]

\* _describe_outcome
RECURSIVE AnswerText(_, _)
AnswerText(answers, answer_id) ==
    IF answers = <<>> THEN None
    ELSE IF Head(answers).id = answer_id /\ Head(answers).text # <<>>
         THEN Some(Head(answers).text)
         ELSE AnswerText(Tail(answers), answer_id)

_describe_outcome(market, outcome, answer_id) ==
    LET outcome_upper == Upper(Strip(outcome))
        text == IF IsNone(answer_id) THEN None
                ELSE AnswerText(market.answers, Get(answer_id))
    IN IF market.outcomeType \in {"BINARY", "PSEUDO_NUMERIC"}
          /\ outcome_upper \in {S_YES, S_NO}
       THEN outcome_upper
       ELSE IF ~IsNone(text) THEN Get(text)
       ELSE IF outcome # <<>> THEN outcome ELSE <<"U", "n", "k", "n", "o", "w", "n">>

\* _mark_price
RECURSIVE AnswerProbability(_, _)
AnswerProbability(answers, label) ==
    IF answers = <<>> THEN <<"miss">>
    ELSE LET text == Strip(Head(answers).text)
         IN IF text # <<>> /\ Lower(text) = Lower(Strip(label))
            THEN <<"hit", Head(answers).probability>>
            ELSE AnswerProbability(Tail(answers), label)

Clamp(p) == IF p > ProbDen THEN ProbDen ELSE IF p < 0 THEN 0 ELSE p

\* mutant: the answer text is compared with the label as written
RECURSIVE AnswerProbability_CaseSensitive(_, _)
AnswerProbability_CaseSensitive(answers, label) ==
    IF answers = <<>> THEN <<"miss">>
    ELSE LET text == Strip(Head(answers).text)
         IN IF text # <<>> /\ text = Strip(label)
            THEN <<"hit", Head(answers).probability>>
            ELSE AnswerProbability_CaseSensitive(Tail(answers), label)

_mark_price_CaseSensitive(market, outcome_label) ==
    LET probability == market.probability
        binary == market.outcomeType \in {"BINARY", "PSEUDO_NUMERIC"} /\ ~IsNone(probability)
        label == Upper(Strip(outcome_label))
        found == AnswerProbability_CaseSensitive(market.answers, outcome_label)
    IN IF binary /\ label = S_YES THEN Some(Clamp(Get(probability)))
       ELSE IF binary /\ label = S_NO THEN Some(ProbDen - Clamp(Get(probability)))
       ELSE IF found[1] = "hit" THEN found[2]
       ELSE probability

_mark_price(market, outcome_label) ==
    LET probability == market.probability
        binary == market.outcomeType \in {"BINARY", "PSEUDO_NUMERIC"} /\ ~IsNone(probability)
        label == Upper(Strip(outcome_label))
        found == AnswerProbability(market.answers, outcome_label)
    IN IF binary /\ label = S_YES THEN Some(Clamp(Get(probability)))
       ELSE IF binary /\ label = S_NO THEN Some(ProbDen - Clamp(Get(probability)))
       ELSE IF found[1] = "hit" THEN found[2]
       ELSE probability

\* index of the aggregate stored under key, 0 when there is none
AggIndex(aggs, key) ==
    IF \E i \in DOMAIN aggs : aggs[i].key = key
    THEN CHOOSE i \in DOMAIN aggs : aggs[i].key = key
    ELSE 0

\* str(bet.get("outcome") or bet.get("answer") or "YES")
OutcomeName(bet) == IF IsNone(bet.outcome) \/ bet.outcome = Some(<<>>) THEN S_YES ELSE Get(bet.outcome)

\* (contract_id, str(answer_id or outcome_name))
BetKey(bet) ==
    << bet.contractId,
       IF IsNone(bet.answerId) \/ bet.answerId = Some(<<>>)
       THEN OutcomeName(bet) ELSE Get(bet.answerId) >>

\* direction * shares, direction = -1.0 if amount < 0 else 1.0
SharesDelta(bet) == IF bet.amount < 0 THEN -bet.shares ELSE bet.shares

\* mutant: the fills of resolved markets are folded like any other
Skipped_IgnoresResolved(bet, mkts) ==
    \/ bet.contractId \notin DOMAIN mkts
    \/ Abs(SharesDelta(bet)) < NoiseThreshold

\* the fill is skipped by the loop: market missing or resolved, or noise
Skipped(bet, mkts) ==
    \/ bet.contractId \notin DOMAIN mkts
    \/ mkts[bet.contractId].isResolved
    \/ Abs(SharesDelta(bet)) < NoiseThreshold

\* mutant: every fill with a non-zero amount, sells included, enters the basis
AggStep_SellsInBasis(aggs, bet, mkts) ==
    IF Skipped(bet, mkts) THEN aggs
    ELSE LET key == BetKey(bet)
             market == mkts[bet.contractId]
             fresh == [key |-> key, shares |-> 0, buy_shares |-> 0, buy_notional |-> 0,
                       outcome_label |->
                           _describe_outcome(market, OutcomeName(bet), bet.answerId)]
             i == AggIndex(aggs, key)
             base == IF i = 0 THEN Append(aggs, fresh) ELSE aggs
             j == IF i = 0 THEN Len(base) ELSE i
             agg == base[j]
             isBuy == bet.amount # 0
         IN [base EXCEPT ![j] =
                [agg EXCEPT !.shares = agg.shares + SharesDelta(bet),
                            !.buy_shares = agg.buy_shares + (IF isBuy THEN bet.shares ELSE 0),
                            !.buy_notional = agg.buy_notional + (IF isBuy THEN bet.amount ELSE 0)]]

\* one iteration of the for loop of _build_positions (lines 182-215)
AggStep(aggs, bet, mkts) ==
    IF Skipped(bet, mkts) THEN aggs
    ELSE LET key == BetKey(bet)
             market == mkts[bet.contractId]
             fresh == [key |-> key, shares |-> 0, buy_shares |-> 0, buy_notional |-> 0,
                       outcome_label |->
                           _describe_outcome(market, OutcomeName(bet), bet.answerId)]
             i == AggIndex(aggs, key)
             base == IF i = 0 THEN Append(aggs, fresh) ELSE aggs
             j == IF i = 0 THEN Len(base) ELSE i
             agg == base[j]
             isBuy == bet.amount > 0
         IN [base EXCEPT ![j] =
                [agg EXCEPT !.shares = agg.shares + SharesDelta(bet),
                            !.buy_shares = agg.buy_shares + (IF isBuy THEN bet.shares ELSE 0),
                            !.buy_notional = agg.buy_notional + (IF isBuy THEN bet.amount ELSE 0)]]

\* avg_price: buy_notional / buy_shares when buy_shares > 0
AvgPrice(agg) ==
    IF agg.buy_shares > 0 THEN Some(Ratio(agg.buy_notional, agg.buy_shares)) ELSE None

\* lines 218-242: the PortfolioPosition built from one aggregate
PositionOf(agg, mkts) ==
    LET market == mkts[agg.key[1]]
        avg_price == AvgPrice(agg)
        mark == _mark_price(market, agg.outcome_label)
    IN [market_id |-> agg.key[1],
        question |-> market.question,
        outcome |-> agg.outcome_label,
        shares |-> agg.shares,
        slug |-> market.slug,
        avg_price |-> avg_price,
        mark_price |-> mark,
        pnl |-> IF ~IsNone(avg_price) /\ ~IsNone(mark)
                THEN Some(Ratio((Get(mark) * Get(avg_price).den
                                   - Get(avg_price).num * ProbDen) * agg.shares,
                                ProbDen * Get(avg_price).den))
                ELSE None]

\* the price estimated_value uses, as a ratio: the mark, else the average
ValuePrice(pos) ==
    IF ~IsNone(pos.mark_price) THEN Ratio(Get(pos.mark_price), ProbDen)
    ELSE IF ~IsNone(pos.avg_price) THEN Get(pos.avg_price)
    ELSE Ratio(0, 1)

\* abs(a.estimated_value() or 0.0) < abs(b.estimated_value() or 0.0)
ValueLess(a, b) ==
    Abs(a.shares * ValuePrice(a).num) * ValuePrice(b).den
        < Abs(b.shares * ValuePrice(b).num) * ValuePrice(a).den

\* positions.sort(key=..., reverse=True): stable, largest value first
RECURSIVE InsertSorted(_, _)
InsertSorted(sorted, pos) ==
    IF sorted = <<>> THEN <<pos>>
    ELSE IF ValueLess(Head(sorted), pos) THEN <<pos>> \o sorted
         ELSE <<Head(sorted)>> \o InsertSorted(Tail(sorted), pos)

RECURSIVE SortPositions(_, _)
SortPositions(done, rest) ==
    IF rest = <<>> THEN done
    ELSE SortPositions(InsertSorted(done, Head(rest)), Tail(rest))

\* mutant: the noise threshold 1e-9 is used for the closed-position filter
Closed_NoiseThreshold(agg) == Abs(agg.shares) < NoiseThreshold

\* abs(shares) < 1e-6: the aggregate is dropped (line 219)
Closed(agg) == Abs(agg.shares) < ClosedThreshold

\* lines 216-244: filter, build and sort
FinishPositions(aggs, mkts) ==
    LET open == SelectSeq(aggs, LAMBDA agg : ~Closed(agg))
        built == [i \in DOMAIN open |-> PositionOf(open[i], mkts)]
    IN SortPositions(<<>>, built)

\* _build_positions as a function of the whole list of fills
RECURSIVE FoldBets(_, _, _)
FoldBets(aggs, fills, mkts) ==
    IF fills = <<>> THEN aggs
    ELSE FoldBets(AggStep(aggs, Head(fills), mkts), Tail(fills), mkts)

_build_positions(fills, mkts) == FinishPositions(FoldBets(<<>>, fills, mkts), mkts)

\* ---- inputs of the aggregator
MaxBets == 3

BinaryMarket(resolved) ==
    [isResolved |-> resolved, outcomeType |-> "BINARY", probability |-> Some(3),
     answers |-> <<>>, question |-> "Will it rain?", slug |-> Some("rain")]
MultiMarket ==
    [isResolved |-> FALSE, outcomeType |-> "MULTIPLE_CHOICE", probability |-> None,
     answers |-> << [id |-> <<"a", "1">>, text |-> S_Yes, probability |-> Some(7)],
                    [id |-> <<"a", "2">>, text |-> S_No, probability |-> Some(3)] >>,
     question |-> "Who wins?", slug |-> None]
MarketMaps ==
    { [m \in {"m1", "m2", "m3"} |->
          CASE m = "m1" -> BinaryMarket(FALSE)
            [] m = "m2" -> MultiMarket
            [] OTHER -> BinaryMarket(TRUE)] }

BetContracts == {"m1", "m2", "m3", "m9"}
BetOutcomes == {Some(S_YES), Some(S_Yes), Some(S_NO)}
BetAnswerIds == {None, Some(<<"a", "1">>)}
BetShares == {1, 1000, 3000}
BetAmounts == {-2, 0, 3}
\* an answerId comes with the fills of the multiple-choice market only, a
\* mixed-case label with the fills of the open binary market only
Bets ==
    { bet \in [contractId : BetContracts, outcome : BetOutcomes, answerId : BetAnswerIds,
               shares : BetShares, amount : BetAmounts] :
        /\ ~IsNone(bet.answerId) => bet.contractId = "m2"
        /\ bet.contractId = "m2" => bet.outcome = Some(S_YES)
        /\ bet.outcome = Some(S_Yes) => bet.contractId = "m1" }

InitAggVars ==
    /\ markets \in MarketMaps
    /\ nbets = 0
    /\ bets = <<>>
    /\ sawSell = FALSE
    /\ aggregates = <<>>
    /\ positions = None
    /\ buyOnly = <<>>

IdleAggVars ==
    /\ markets = [m \in {"m1"} |-> BinaryMarket(FALSE)]
    /\ nbets = MaxBets
    /\ bets = <<>>
    /\ sawSell = FALSE
    /\ aggregates = <<>>
    /\ positions = Some(<<>>)
    /\ buyOnly = <<>>

\* the loop consumes the next fill
ConsumeBet ==
    /\ UNCHANGED notAgg
    /\ IsNone(positions)
    /\ nbets < MaxBets
    /\ \E bet \in Bets :
          /\ aggregates' = AggStep(aggregates, bet, markets)
          /\ buyOnly' = IF bet.amount < 0 THEN buyOnly ELSE AggStep(buyOnly, bet, markets)
          /\ sawSell' = (sawSell \/ bet.amount < 0)
          /\ bets' = Append(bets, bet)
    /\ nbets' = nbets + 1
    /\ UNCHANGED <<markets, positions>>

\* the loop is over: the positions are built, sorted and returned
ReturnPositions ==
    /\ UNCHANGED notAgg
    /\ IsNone(positions)
    /\ positions' = Some(FinishPositions(aggregates, markets))
    /\ UNCHANGED <<markets, nbets, bets, sawSell, aggregates, buyOnly>>

NextAgg == ConsumeBet \/ ReturnPositions

-----------------------------------------------------------------------------
(* Manifold API helpers: src/agent/manifold/portfolio.py (_fetch_markets_for_bets,
   _api_request) and src/agent/manifold/trading.py (_fetch_market_payload,
   _api_request) *)

\* most contract ids in the fills handed to _fetch_markets_for_bets
MaxMarketIds == 3

\* unique_ids: the contract ids in first-seen order (lines 157-166)
RECURSIVE UniqueIds(_, _)
UniqueIds(ids, seen) ==
    IF ids = <<>> THEN seen
    ELSE UniqueIds(Tail(ids), IF InSeq(Head(ids), seen) THEN seen ELSE Append(seen, Head(ids)))

\* candidates of _fetch_market_payload (trading.py lines 172-175)
MarketPayloadCandidates(identifier) ==
    << <<"/market/", identifier>>, <<"/slug/", identifier>> >>

\* what urlopen can end in: 200 with a dict carrying an id, 200 with a dict
\* without id, 200 with a non-dict body, an HTTPError status, a URLError
ManifoldStatuses == {"200id", "200noid", "200list", "404", "500", "neterr"}

\* _api_request (both modules): what the caller sees for a status.  Every
\* HTTPError, and every non-200 status, leaves as RuntimeError; a URLError is
\* not caught and leaves as itself; MANIFOLD_API_KEY missing raises
\* RuntimeError in _auth_headers before urlopen.
_api_request(status) ==
    IF status \in {"200id", "200noid"} THEN [kind |-> "dict", has_id |-> status = "200id"]
    ELSE IF status = "200list" THEN [kind |-> "list", has_id |-> FALSE]
    ELSE IF status = "neterr" THEN [kind |-> "URLError", has_id |-> FALSE]
    ELSE [kind |-> "RuntimeError", has_id |-> FALSE]

ManifoldCalls ==
    [op : {"markets"},
     ids : UNION { [1..n -> {"m1", "m2", "m3"}] : n \in 0..MaxMarketIds }]
    \cup [op : {"details"}, ids : {<<>>, <<"m1">>, <<"rain">>}]

InitManifoldVars ==
    /\ mkey \in BOOLEAN
    /\ mcall \in ManifoldCalls
    /\ mpc = "run"
    /\ midx = 0
    /\ market_map = <<>>
    /\ mreqs = <<>>
    /\ mresult = None

IdleManifoldVars ==
    /\ mkey = FALSE
    /\ mcall = [op |-> "markets", ids |-> <<>>]
    /\ mpc = "idle"
    /\ midx = 0
    /\ market_map = <<>>
    /\ mreqs = <<>>
    /\ mresult = None

MRaise(exc) == mpc' = "done" /\ mresult' = Some([kind |-> exc, map |-> <<>>])

\* one iteration of the second loop of _fetch_markets_for_bets (lines 168-176)
FetchMarketDetail ==
    /\ UNCHANGED notManifold
    /\ mpc = "run" /\ mcall.op = "markets"
    /\ midx < Len(UniqueIds(mcall.ids, <<>>))
    /\ LET market_id == UniqueIds(mcall.ids, <<>>)[midx + 1]
       IN IF ~mkey
          THEN MRaise("RuntimeError") /\ UNCHANGED <<midx, market_map, mreqs>>
          ELSE \E status \in ManifoldStatuses :
                 LET payload == _api_request(status)
                 IN /\ mreqs' = Append(mreqs, [path |-> <<"/market/", market_id>>,
                                               status |-> status])
                    /\ IF payload.kind = "RuntimeError"
                       THEN MRaise("RuntimeError") /\ UNCHANGED <<midx, market_map>>
                       ELSE /\ midx' = midx + 1
                            /\ market_map' = IF payload.kind = "dict"
                                              THEN Append(market_map, market_id)
                                              ELSE market_map
                            /\ UNCHANGED <<mpc, mresult>>
    /\ UNCHANGED <<mkey, mcall>>

\* _fetch_markets_for_bets, line 177: return market_map
ReturnMarketMap ==
    /\ UNCHANGED notManifold
    /\ mpc = "run" /\ mcall.op = "markets"
    /\ midx = Len(UniqueIds(mcall.ids, <<>>))
    /\ mpc' = "done"
    /\ mresult' = Some([kind |-> "map", map |-> market_map])
    /\ UNCHANGED <<mkey, mcall, midx, market_map, mreqs>>

\* one iteration of the loop of _fetch_market_payload (trading.py lines 170-184)
FetchMarketPayload ==
    /\ UNCHANGED notManifold
    /\ mpc = "run" /\ mcall.op = "details"
    /\ midx < 2
    /\ IF mcall.ids = <<>>
       THEN MRaise("RuntimeError") /\ UNCHANGED <<midx, mreqs>>
       ELSE IF ~mkey
       THEN MRaise("RuntimeError") /\ UNCHANGED <<midx, mreqs>>
       ELSE \E status \in ManifoldStatuses :
              LET payload == _api_request(status)
                  path == MarketPayloadCandidates(mcall.ids[1])[midx + 1]
              IN /\ mreqs' = Append(mreqs, [path |-> path, status |-> status])
                 /\ IF payload.kind \in {"RuntimeError", "URLError"}
                    THEN MRaise(payload.kind) /\ midx' = midx
                    ELSE IF payload.kind = "dict" /\ payload.has_id
                    THEN /\ mpc' = "done"
                         /\ mresult' = Some([kind |-> "payload", map |-> <<path>>])
                         /\ midx' = midx
                    ELSE midx' = midx + 1 /\ UNCHANGED <<mpc, mresult>>
    /\ UNCHANGED <<mkey, mcall, market_map>>

\* _fetch_market_payload, lines 185-187: both candidates went by
RaiseMarketNotFound ==
    /\ UNCHANGED notManifold
    /\ mpc = "run" /\ mcall.op = "details"
    /\ midx = 2
    /\ MRaise("RuntimeError")
    /\ UNCHANGED <<mkey, mcall, midx, market_map, mreqs>>

NextManifold ==
    FetchMarketDetail \/ ReturnMarketMap \/ FetchMarketPayload \/ RaiseMarketNotFound

-----------------------------------------------------------------------------
(* Signed client: _AuthenticatedPolymarketClient, src/agent/polymarket/portfolio.py *)

\* most requests of one client instance, and seconds the clock advances
MaxRequests == 2
MaxClock == 3
\* the clock reading when the client is constructed
Epoch == 8

Digit(d) == <<"0", "1", "2", "3", "4", "5", "6", "7", "8", "9">>[d + 1]

\* str(n) for n >= 0
RECURSIVE Str(_)
Str(n) == IF n < 10 THEN <<Digit(n)>> ELSE Append(Str(n \div 10), Digit(n % 10))

\* mutant: the timestamp is the one taken when the client was constructed
Timestamp_AtConstruction(t) == Str(Epoch)

\* line 485: timestamp = str(int(time.time()))
Timestamp(t) == Str(t)

S_slash == <<"/">>
S_default_path == <<"/", "p">>

\* _build_url for relative paths (lines 524-536): the request path
RequestPath(path) ==
    IF path = <<>> THEN S_default_path
    ELSE IF StartsWith(path, S_slash) THEN path
    ELSE S_slash \o path

\* _serialize_body for None and str (lines 539-544): the signed text
BodyText(body) == IF IsNone(body) THEN <<>> ELSE Get(body)

\* _sign (lines 548-552): base64(HMAC_SHA256(secret, message)), kept symbolic
_sign(secret, timestamp, method, request_path, body) ==
    <<"hmac_sha256", secret, timestamp \o Upper(method) \o request_path \o body>>

SignerMethods == {<<"g", "e", "t">>, <<"P", "O", "S", "T">>}
SignerPaths == {<<>>, <<"/", "b">>, <<"b">>}
SignerBodies == {None, Some(<<"{", "}">>)}

InitSignerVars ==
    /\ sclient \in [api_secret : {"c2VjcmV0", "!"}, wallet_address : {None, Some(S_0xa)}]
    /\ clock = Epoch
    /\ sent = <<>>

IdleSignerVars ==
    /\ sclient = [api_secret |-> "", wallet_address |-> None]
    /\ clock = Epoch
    /\ sent = <<>>

\* time passes between two calls
Tick ==
    /\ UNCHANGED notSigner
    /\ sclient.api_secret # ""
    /\ clock < Epoch + MaxClock
    /\ clock' = clock + 1
    /\ UNCHANGED <<sclient, sent>>

\* _request (lines 482-521); _decode_secret raises for a secret that is
\* neither base64 nor hex, before anything is sent
SignedRequest ==
    /\ UNCHANGED notSigner
    /\ sclient.api_secret # ""
    /\ Len(sent) < MaxRequests
    /\ \E method \in SignerMethods, path \in SignerPaths, body \in SignerBodies :
          LET request_path == RequestPath(path)
              body_text == BodyText(body)
              timestamp == Timestamp(clock)
              signature == _sign(sclient.api_secret, timestamp, Upper(method),
                                 request_path, body_text)
          IN IF sclient.api_secret = "!"
             THEN UNCHANGED sent
             ELSE sent' = Append(sent,
                     [time |-> clock, method |-> Upper(method), path |-> request_path,
                      data |-> body,
                      X_API_SIGNATURE |-> signature, X_API_TIMESTAMP |-> timestamp,
                      POLY_SIGNATURE |-> signature, POLY_TIMESTAMP |-> timestamp,
                      POLY_ADDRESS |-> sclient.wallet_address])
    /\ UNCHANGED <<sclient, clock>>

NextSigner == Tick \/ SignedRequest

-----------------------------------------------------------------------------
(* Market normalisers: _mark_price (src/agent/manifold/portfolio.py),
   _outcomes_from_market (src/agent/manifold/data.py) and
   PolymarketClient._derive_probability (src/connectors/polymarket.py) *)

S_no == <<"n", "o">>

\* prob = float(probability), 0.5 when it is missing; min(max(prob, 0.0), 1.0)
DefaultedProb(probability) ==
    Clamp(IF IsNone(probability) THEN ProbDen \div 2 ELSE Get(probability))

\* the loop over answers of _outcomes_from_market (lines 93-102)
RECURSIVE AnswerQuotes(_)
AnswerQuotes(answers) ==
    IF answers = <<>> THEN <<>>
    ELSE LET ans_prob == Head(answers).probability
         IN IF IsNone(ans_prob) THEN AnswerQuotes(Tail(answers))
            ELSE << IF Get(ans_prob) > 0 THEN Get(ans_prob) ELSE 0 >>
                     \o AnswerQuotes(Tail(answers))

\* _outcomes_from_market (lines 80-111): the prices of the quotes, in order
_outcomes_from_market(market) ==
    IF market.outcomeType \in {"BINARY", "PSEUDO_NUMERIC"}
    THEN << DefaultedProb(market.probability), ProbDen - DefaultedProb(market.probability) >>
    ELSE IF AnswerQuotes(market.answers) # <<>> THEN AnswerQuotes(market.answers)
    ELSE << DefaultedProb(market.probability) >>

\* ---- JSON values of a Polymarket payload; a dict is its key/value pairs in
\* insertion order
PyNone == [t |-> "none"]
PyStr(s) == [t |-> "str", s |-> s]
PyNum(n) == [t |-> "num", n |-> n]
PyDict(items) == [t |-> "dict", items |-> items]
PyList(items) == [t |-> "list", items |-> items]

\* d.get(key)
RECURSIVE ItemsGet(_, _)
ItemsGet(items, key) ==
    IF items = <<>> THEN PyNone
    ELSE IF Head(items)[1] = key THEN Head(items)[2]
    ELSE ItemsGet(Tail(items), key)

DictGet(d, key) == ItemsGet(d.items, key)

\* bool(value)
Truthy(value) ==
    CASE value.t = "none" -> FALSE
      [] value.t = "str" -> value.s # <<>>
      [] value.t = "num" -> value.n # 0
      [] OTHER -> value.items # <<>>

\* a or b
PyOr(a, b) == IF Truthy(a) THEN a ELSE b

\* float(text) for the texts "0", "1" and "0.d"; None for any other text
ParseFloat(s) ==
    LET text == Strip(s)
    IN IF text = <<"0">> THEN Some(0)
       ELSE IF text = <<"1">> THEN Some(ProbDen)
       ELSE IF Len(text) = 3 /\ text[1] = "0" /\ text[2] = "."
               /\ \E d \in 0..9 : Digit(d) = text[3]
            THEN Some(((CHOOSE d \in 0..9 : Digit(d) = text[3]) * ProbDen) \div 10)
            ELSE None

\* float(value), None when it raises
Float(value) ==
    CASE value.t = "num" -> Some(value.n)
      [] value.t = "str" -> ParseFloat(value.s)
      [] OTHER -> None

\* for key in keys: if key in d and d[key] is not None: try: return
\* float(d[key]); except Exception: continue
RECURSIVE FirstFloat(_, _)
FirstFloat(d, keys) ==
    IF keys = <<>> THEN None
    ELSE IF ~IsNone(Float(DictGet(d, Head(keys)))) THEN Float(DictGet(d, Head(keys)))
    ELSE FirstFloat(d, Tail(keys))

ScalarKeys ==
    <<"probability", "pYes", "yesPrice", "mid", "price", "lastPrice", "bestBid",
      "impliedProbability">>
MappingCandidates ==
    <<S_YES, S_Yes, <<"Y">>, <<"1">>, <<"U", "P">>, <<"T", "R", "U", "E">>>>
YesNames == {S_yes, <<"y">>, <<"1">>, <<"u", "p">>, <<"t", "r", "u", "e">>}

\* str(value) of a name
NameText(value) == IF value.t = "str" THEN value.s ELSE IF value.t = "num" THEN Str(value.n) ELSE <<>>

\* the outcomes list branch of _derive_probability (lines 369-378): a number is
\* returned, AttributeError is raised by outcome.get on an entry that is no
\* dict, or the loop ends without a price
RECURSIVE YesOutcomePrice(_)
YesOutcomePrice(outcomes) ==
    IF outcomes = <<>> THEN <<"miss">>
    ELSE LET outcome == Head(outcomes)
         IN IF outcome.t # "dict" THEN <<"raise", "AttributeError">>
            ELSE LET name == Lower(NameText(PyOr(PyOr(DictGet(outcome, "name"),
                                                       DictGet(outcome, "outcome")),
                                                  PyStr(<<>>))))
                     price == FirstFloat(outcome, <<"price", "probability", "p">>)
                 IN IF name \in YesNames /\ ~IsNone(price) THEN <<"return", Get(price)>>
                    ELSE YesOutcomePrice(Tail(outcomes))

\* PolymarketClient._derive_probability (lines 354-379)
_derive_probability(payload) ==
    LET direct == FirstFloat(payload, ScalarKeys)
        outcomes == PyOr(DictGet(payload, "outcomePrices"), DictGet(payload, "outcomes"))
        mapped == IF outcomes.t = "dict" THEN FirstFloat(outcomes, MappingCandidates)
                  ELSE None
        listed == IF outcomes.t = "list" THEN YesOutcomePrice(outcomes.items)
                  ELSE <<"miss">>
    IN IF ~IsNone(direct) THEN <<"return", Get(direct)>>
       ELSE IF ~IsNone(mapped) THEN <<"return", Get(mapped)>>
       ELSE IF listed[1] # "miss" THEN listed
       ELSE <<"return", 0>>

\* the payload of the normalisers as a Polymarket payload: the scalar keys
\* "probability" and "lastPrice", and the answers as its outcomes list
OptNum(o) == IF IsNone(o) THEN PyNone ELSE PyNum(Get(o))
AsPayload(market) ==
    PyDict(<< <<"probability", OptNum(market.probability)>>,
              <<"lastPrice", OptNum(market.lastPrice)>>,
              <<"outcomes",
                PyList([i \in DOMAIN market.answers |->
                           PyDict(<< <<"name", PyStr(market.answers[i].text)>>,
                                     <<"probability",
                                       OptNum(market.answers[i].probability)>> >>)])>> >>)

\* raw probabilities a payload can carry: -0.1, 0, 0.3, 0.7, 1, 1.2, or none
RawProbs == {None, Some(-1), Some(0), Some(3), Some(7), Some(ProbDen), Some(12)}
AnswerLists ==
    { <<>>,
      << [id |-> <<"a", "1">>, text |-> S_Yes, probability |-> Some(7)],
         [id |-> <<"a", "2">>, text |-> S_No, probability |-> Some(3)] >>,
      << [id |-> <<"a", "1">>, text |-> S_YESsp, probability |-> Some(12)],
         [id |-> <<"a", "2">>, text |-> S_No, probability |-> Some(-1)],
         [id |-> <<"a", "3">>, text |-> S_NO, probability |-> None] >> }
NormPayloads ==
    [outcomeType : {"BINARY", "MULTIPLE_CHOICE"}, probability : RawProbs,
     lastPrice : {None, Some(3), Some(12)}, answers : AnswerLists]
NormLabels == {S_no, S_No, S_NO, S_YES, S_YESsp, <<"x">>}

InitNormVars ==
    /\ npayload \in NormPayloads
    /\ nlabel \in NormLabels
    /\ nout = None

IdleNormVars ==
    /\ npayload = [outcomeType |-> "", probability |-> None, lastPrice |-> None,
                   answers |-> <<>>]
    /\ nlabel = <<>>
    /\ nout = None

\* _mark_price(market, outcome_label) is applied
MarkPrice ==
    /\ UNCHANGED notNorm
    /\ npayload.outcomeType # "" /\ IsNone(nout)
    /\ nout' = Some([fn |-> "_mark_price", prices |-> <<_mark_price(npayload, nlabel)>>])
    /\ UNCHANGED <<npayload, nlabel>>

\* _outcomes_from_market(market) is applied
OutcomesFromMarket ==
    /\ UNCHANGED notNorm
    /\ npayload.outcomeType # "" /\ IsNone(nout)
    /\ nout' = Some([fn |-> "_outcomes_from_market",
                     prices |-> [i \in DOMAIN _outcomes_from_market(npayload) |->
                                    Some(_outcomes_from_market(npayload)[i])]])
    /\ UNCHANGED <<npayload, nlabel>>

\* PolymarketClient._derive_probability(payload) is applied
DeriveProbability ==
    /\ UNCHANGED notNorm
    /\ npayload.outcomeType # "" /\ IsNone(nout)
    /\ nout' = Some([fn |-> "_derive_probability",
                     prices |-> <<Some(_derive_probability(AsPayload(npayload))[2])>>])
    /\ UNCHANGED <<npayload, nlabel>>

NextNorm == MarkPrice \/ OutcomesFromMarket \/ DeriveProbability

-----------------------------------------------------------------------------
(* Connector client: PolymarketClient, src/connectors/polymarket.py *)

\* most _get calls of one client instance
MaxCalls == 3

DEFAULT_PRIMARY_ROOT == <<"c", "l", "o", "b">>
FALLBACK_ROOT == <<"g", "a", "m", "m", "a">>
CUSTOM_ROOT == <<"x", "/">>

\* root.rstrip("/")
RECURSIVE RStripSlash(_)
RStripSlash(root) ==
    IF root # <<>> /\ root[Len(root)] = "/"
    THEN RStripSlash(SubSeq(root, 1, Len(root) - 1))
    ELSE root

\* __init__, lines 33-44: <<_active_root, _fallback_root>>
ConstructRoots(api_root, env_root) ==
    IF ~IsNone(api_root) /\ Get(api_root) # <<>>
    THEN <<RStripSlash(Get(api_root)), None>>
    ELSE IF ~IsNone(env_root) /\ Get(env_root) # <<>>
    THEN <<RStripSlash(Get(env_root)), None>>
    ELSE <<RStripSlash(DEFAULT_PRIMARY_ROOT), Some(RStripSlash(FALLBACK_ROOT))>>

\* _candidate_roots (lines 435-439)
_candidate_roots(active, fallback) ==
    IF ~IsNone(fallback) /\ Get(fallback) # <<>> /\ Get(fallback) # active
    THEN <<active, Get(fallback)>>
    ELSE <<active>>

\* how the request to one root can end: a JSON body, a RequestException, a
\* status that is not ok, a body that is not JSON
RootOutcomes == {"ok", "exc", "500", "badjson"}

\* index of the first root that answers with JSON, 0 when none does
FirstOk(outcomes) ==
    IF \E k \in DOMAIN outcomes : outcomes[k] = "ok"
    THEN CHOOSE k \in DOMAIN outcomes :
             outcomes[k] = "ok" /\ \A h \in 1..(k - 1) : outcomes[h] # "ok"
    ELSE 0

ClientPaths == {<<"/", "m">>, <<"/", "f">>}

InitClientVars ==
    \E api_root \in {None, Some(CUSTOM_ROOT)}, env_root \in {None, Some(FALLBACK_ROOT)} :
        /\ _active_root = ConstructRoots(api_root, env_root)[1]
        /\ _fallback_root = ConstructRoots(api_root, env_root)[2]
        /\ _last_error = None
        /\ roots0 = _candidate_roots(ConstructRoots(api_root, env_root)[1],
                                     ConstructRoots(api_root, env_root)[2])
        /\ getlog = <<>>

IdleClientVars ==
    /\ _active_root = <<>>
    /\ _fallback_root = None
    /\ _last_error = None
    /\ roots0 = <<>>
    /\ getlog = <<>>

\* one call of _get (lines 387-422)
ClientGet ==
    /\ UNCHANGED notClient
    /\ _active_root # <<>>
    /\ Len(getlog) < MaxCalls
    /\ LET roots == _candidate_roots(_active_root, _fallback_root)
       IN \E path \in ClientPaths, outcomes \in [DOMAIN roots -> RootOutcomes] :
            LET k == FirstOk(outcomes)
                n == IF k = 0 THEN Len(roots) ELSE k
                urls == [i \in 1..n |-> roots[i] \o path]
            IN /\ getlog' = Append(getlog, [urls |-> urls, returned |-> k # 0])
               /\ IF k = 0
                  THEN /\ _last_error' = Some(<<outcomes[n], urls[n]>>)
                       /\ UNCHANGED <<_active_root, _fallback_root>>
                  ELSE /\ _last_error' = None
                       /\ IF roots[k] # _active_root
                          THEN _active_root' = roots[k] /\ _fallback_root' = None
                          ELSE UNCHANGED <<_active_root, _fallback_root>>
    /\ UNCHANGED roots0

NextClient == ClientGet

-----------------------------------------------------------------------------
(* Polymarket market normaliser: PolymarketClient._normalize_market,
   _flatten_market_payload and _extract_market_id (src/connectors/polymarket.py) *)

\* the items of outer whose key is neither skip nor a key of inner
RECURSIVE OuterItems(_, _, _)
OuterItems(outer, inner, skip) ==
    IF outer = <<>> THEN <<>>
    ELSE IF Head(outer)[1] = skip \/ \E i \in DOMAIN inner : inner[i][1] = Head(outer)[1]
         THEN OuterItems(Tail(outer), inner, skip)
         ELSE <<Head(outer)>> \o OuterItems(Tail(outer), inner, skip)

\* one iteration of the loop of _flatten_market_payload (lines 230-237)
FlattenKey(source, key) ==
    LET inner == DictGet(source, key)
    IN IF inner.t = "dict" /\ inner.items # <<>>
       THEN PyDict(inner.items \o OuterItems(source.items, inner.items, key))
       ELSE source

_flatten_market_payload(payload) ==
    FlattenKey(FlattenKey(FlattenKey(payload, "market"), "contract"), "data")

\* first_truthy (lines 156-162): index of the first value that is a non-blank
\* string or is not in (None, "", 0, False); 0 when there is none
FirstTruthyIndex(values) ==
    LET hit(value) ==
            \/ value.t = "str" /\ value.s # <<>>
            \/ value.t = "num" /\ value.n # 0
            \/ value.t \in {"dict", "list"}
    IN IF \E i \in DOMAIN values : hit(values[i])
       THEN CHOOSE i \in DOMAIN values :
               hit(values[i]) /\ \A j \in 1..(i - 1) : ~hit(values[j])
       ELSE 0

\* the values of the keys of d, in the order of keys
ValuesOf(d, keys) == [i \in DOMAIN keys |-> DictGet(d, keys[i])]

TopLevelIdKeys ==
    <<"id", "marketId", "conditionId", "condition_id", "question_id", "marketHash",
      "_id", "market_slug", "slug">>
FpmmIdKeys == <<"conditionId", "condition_id", "marketHash", "_id">>
TokenIdKeys ==
    <<"market_hash", "marketHash", "condition_id", "conditionId", "token_id", "tokenId">>

\* the loop over tokens (lines 187-199)
RECURSIVE TokenCandidates(_)
TokenCandidates(tokens) ==
    IF tokens = <<>> THEN <<>>
    ELSE (IF Head(tokens).t = "dict" THEN ValuesOf(Head(tokens), TokenIdKeys) ELSE <<>>)
             \o TokenCandidates(Tail(tokens))

\* the candidates list of _extract_market_id (lines 164-199)
IdCandidates(source) ==
    LET fpmm == DictGet(source, "fpmm")
        tokens == DictGet(source, "tokens")
    IN ValuesOf(source, TopLevelIdKeys)
          \o (IF fpmm.t = "dict" THEN ValuesOf(fpmm, FpmmIdKeys) ELSE <<>>)
          \o (IF tokens.t = "list" THEN TokenCandidates(tokens.items) ELSE <<>>)

\* str(candidate)
PyText(value) == IF value.t = "num" THEN Str(value.n) ELSE value.s

\* _extract_market_id (lines 155-203): Optional text
_extract_market_id(source) ==
    LET candidates == IdCandidates(source)
        i == FirstTruthyIndex(candidates)
    IN IF i = 0 THEN None ELSE Some(PyText(candidates[i]))

\* _normalize_market (lines 109-123): the id and the probability of the
\* normalized market, or the exception raised
_normalize_market(payload) ==
    LET source == _flatten_market_payload(payload)
        market_id == _extract_market_id(source)
        probability == _derive_probability(source)
    IN IF IsNone(market_id) \/ Get(market_id) = <<>>
       THEN [raised |-> "PolymarketAPIError", id |-> <<>>, probability |-> 0]
       ELSE IF probability[1] = "raise"
            THEN [raised |-> probability[2], id |-> <<>>, probability |-> 0]
            ELSE [raised |-> "", id |-> Get(market_id), probability |-> probability[2]]

\* ---- payloads handed to _normalize_market
S_A == <<"A">>
S_B == <<"B">>
S_blank == <<" ", " ">>
S_abc == <<"a", "b", "c">>

\* a dict with nothing, one or two of the keys set, in the order of keys
SmallDicts(keys, values) ==
    {<<>>}
      \cup { << <<keys[i], v>> >> : i \in DOMAIN keys, v \in values }
      \cup { << <<keys[i], v>>, <<keys[j], w>> >> :
                <<i, j, v, w>> \in
                    { q \in (DOMAIN keys) \X (DOMAIN keys) \X values \X values :
                        q[1] < q[2] } }

\* identifier fields a payload can carry; questionId is a key the API documents
IdKeyPool == TopLevelIdKeys \o <<"questionId">>
IdValues == {PyNone, PyStr(<<>>), PyStr(S_blank), PyNum(0), PyStr(S_A), PyStr(S_B)}
NestedIds ==
    { <<>>,
      << <<"fpmm", PyDict(<< <<"conditionId", PyStr(<<"F">>)>> >>)>> >>,
      << <<"tokens", PyList(<< PyStr(<<"t">>),
                               PyDict(<< <<"conditionId", PyStr(<<"C">>)>>,
                                         <<"tokenId", PyStr(<<"T">>)>> >>) >>)>> >>,
      << <<"tokens", PyList(<< PyDict(<< <<"tokenId", PyStr(<<"T">>)>> >>) >>)>> >>,
      << <<"market", PyDict(<< <<"slug", PyStr(<<"S">>)>> >>)>> >> }
IdPayloads ==
    { PyDict(top \o nested) : top \in SmallDicts(IdKeyPool, IdValues), nested \in NestedIds }

\* probability fields a payload can carry, with the id "A"
ScalarValues == {PyNone, PyNum(3), PyNum(7), PyStr(S_abc), PyStr(<<"0", ".", "7">>)}
OutcomeValues ==
    { PyNone,
      PyDict(<< <<S_yes, PyNum(7)>> >>),
      PyDict(<< <<S_Yes, PyNum(7)>>, <<S_No, PyNum(3)>> >>),
      PyDict(<< <<S_YES, PyStr(S_abc)>>, <<<<"Y">>, PyNum(3)>> >>),
      PyList(<< PyDict(<< <<"name", PyStr(S_No)>>, <<"price", PyNum(3)>> >>),
                PyDict(<< <<"name", PyStr(S_YES)>>, <<"price", PyNum(7)>> >>) >>),
      PyList(<< PyDict(<< <<"outcome", PyStr(<<"U", "p">>)>>, <<"price", PyStr(S_abc)>>,
                          <<"p", PyNum(3)>> >>) >>),
      PyList(<< PyStr(S_Yes), PyStr(S_No) >>),
      PyStr(S_Yes) }
OutcomePriceValues ==
    { PyNone, PyList(<<>>), PyList(<< PyStr(<<"0", ".", "7">>), PyStr(<<"0", ".", "3">>) >>) }
ProbPayloads ==
    { PyDict(<< <<"id", PyStr(S_A)>> >> \o scalars
                \o << <<"outcomePrices", prices>>, <<"outcomes", outcomes>> >>) :
        scalars \in SmallDicts(ScalarKeys, ScalarValues),
        prices \in OutcomePriceValues, outcomes \in OutcomeValues }

InitMarketVars ==
    /\ cpayload \in IdPayloads \cup ProbPayloads
    /\ normalized = None

IdleMarketVars ==
    /\ cpayload = PyDict(<<>>)
    /\ normalized = Some([raised |-> "", id |-> <<>>, probability |-> 0])

\* _normalize_market(payload) is applied
NormalizeMarket ==
    /\ UNCHANGED notMarket
    /\ IsNone(normalized)
    /\ normalized' = Some(_normalize_market(cpayload))
    /\ UNCHANGED cpayload

NextMarket == NormalizeMarket

-----------------------------------------------------------------------------
(* Multi-agent runner: src/agent/multi_runner.py (run_multi_agent,
   _temporary_env, AgentConfig.resolve_manifold_key) *)

\* most agents in one configuration
MaxAgents == 2

\* AgentConfig.resolve_manifold_key (lines 65-75): the key, or None when it
\* raises RuntimeError
resolve_manifold_key(cfg, environ) ==
    IF ~IsNone(cfg.manifold_key) /\ Get(cfg.manifold_key) # ""
    THEN cfg.manifold_key
    ELSE IF ~IsNone(cfg.manifold_key_env) /\ Get(cfg.manifold_key_env) # ""
         THEN LET key == environ[Get(cfg.manifold_key_env)]
              IN IF ~IsNone(key) /\ Get(key) # "" THEN key ELSE None
         ELSE None

\* mutant: the variable is removed whatever it held before
RestoreEnv_AlwaysPops(environ, var_name, prev) == [environ EXCEPT ![var_name] = None]

\* the finally block of _temporary_env (lines 98-102)
RestoreEnv(environ, var_name, prev) ==
    IF IsNone(prev) THEN [environ EXCEPT ![var_name] = None]
    ELSE [environ EXCEPT ![var_name] = prev]

\* ---- inputs of the runner
AgentConfigs ==
    [name : {"a", "b"},
     manifold_key : {None, Some(""), Some("key-1"), Some("key-2")},
     manifold_key_env : {None, Some("MANIFOLD_API_KEY"), Some("AGENT_KEY")}]
ConfigLists == UNION { [1..n -> AgentConfigs] : n \in 1..MaxAgents }
Environs ==
    [{"MANIFOLD_API_KEY", "AGENT_KEY"} -> {None, Some(""), Some("key-0")}]
\* run_daily_session returns a result or raises an Exception
SessionOutcomes == {"returned", "raised"}

InitRunnerVars ==
    /\ configs \in ConfigLists
    /\ os_environ \in Environs
    /\ runpc = "resolve"
    /\ cfgIdx = 0
    /\ manifold_key = ""
    /\ previous = None
    /\ session = None
    /\ results_file = <<>>
    /\ environ0 = os_environ
    /\ sessions = <<>>

IdleRunnerVars ==
    /\ configs = <<>>
    /\ os_environ = [v \in {"MANIFOLD_API_KEY", "AGENT_KEY"} |-> None]
    /\ runpc = "idle"
    /\ cfgIdx = 0
    /\ manifold_key = ""
    /\ previous = None
    /\ session = None
    /\ results_file = <<>>
    /\ environ0 = os_environ
    /\ sessions = <<>>

\* lines 114-121: the next agent's key is resolved; RuntimeError ends the run
ResolveKey ==
    /\ UNCHANGED notRunner
    /\ runpc = "resolve" /\ cfgIdx < Len(configs)
    /\ LET key == resolve_manifold_key(configs[cfgIdx + 1], os_environ)
       IN IF IsNone(key)
          THEN runpc' = "raised" /\ UNCHANGED manifold_key
          ELSE runpc' = "enter" /\ manifold_key' = Get(key)
    /\ session' = None
    /\ UNCHANGED <<configs, os_environ, cfgIdx, previous, results_file, environ0, sessions>>

\* lines 122 and 94-96: _temporary_env saves the variable and sets it
EnterTemporaryEnv ==
    /\ UNCHANGED notRunner
    /\ runpc = "enter"
    /\ previous' = os_environ["MANIFOLD_API_KEY"]
    /\ os_environ' = [os_environ EXCEPT !["MANIFOLD_API_KEY"] = Some(manifold_key)]
    /\ sessions' = Append(sessions, [agent |-> cfgIdx + 1,
                                     key |-> os_environ'["MANIFOLD_API_KEY"]])
    /\ runpc' = "session"
    /\ UNCHANGED <<configs, cfgIdx, manifold_key, session, results_file, environ0>>

\* lines 123-135: the session runs and returns or raises
RunSession ==
    /\ UNCHANGED notRunner
    /\ runpc = "session"
    /\ \E outcome \in SessionOutcomes : session' = Some(outcome)
    /\ runpc' = "exit"
    /\ UNCHANGED <<configs, os_environ, cfgIdx, manifold_key, previous, results_file,
                   environ0, sessions>>

\* lines 98-102: the with block is left
ExitTemporaryEnv ==
    /\ UNCHANGED notRunner
    /\ runpc = "exit"
    /\ os_environ' = RestoreEnv(os_environ, "MANIFOLD_API_KEY", previous)
    /\ runpc' = "persist"
    /\ UNCHANGED <<configs, cfgIdx, manifold_key, previous, session, results_file,
                   environ0, sessions>>

\* lines 136-148: the record is appended and the loop moves on
PersistResult ==
    /\ UNCHANGED notRunner
    /\ runpc = "persist"
    /\ results_file' = Append(results_file,
                              [agent |-> configs[cfgIdx + 1].name,
                               success |-> (session = Some("returned"))])
    /\ cfgIdx' = cfgIdx + 1
    /\ runpc' = IF cfgIdx + 1 < Len(configs) THEN "resolve" ELSE "done"
    /\ UNCHANGED <<configs, os_environ, manifold_key, previous, session, environ0,
                   sessions>>

NextRunner == ResolveKey \/ EnterTemporaryEnv \/ RunSession \/ ExitTemporaryEnv \/ PersistResult

-----------------------------------------------------------------------------
(* Tool agent loop: src/agents/tool_agent.py (ToolAgent.run, _chat,
   _parse_action, _execute_tool) *)

\* largest max_steps the agent is constructed with
MaxSteps == 3

\* ---- what one LLM round trip can bring back
\* the HTTP exchange of _chat (lines 142-160)
ChatOutcomes == {"content", "not_ok", "malformed", "empty_content", "network_error"}
\* the reply text, by what json.loads and payload.get make of it
ReplyTexts ==
    [json : {"invalid", "list", "object"},
     action : {"call_tool", "finish", "other"},
     tool : {"", "list_markets", "get_market", "no_such_tool"},
     input : {"empty", "given"},
     output : {"absent", "null", "", "plan"}]
\* one representative per case the loop tells apart
Replies ==
    { r \in ReplyTexts :
        /\ r.json # "object" => (r.action = "other" /\ r.tool = "" /\ r.input = "empty"
                                   /\ r.output = "absent")
        /\ r.action # "call_tool" => (r.tool = "" /\ r.input = "empty")
        /\ r.action # "finish" => r.output = "absent" }
\* what the handler of a known tool does
HandlerOutcomes == {"result", "PolymarketAPIError", "Exception"}

\* the ToolAction fields of a parsed reply, or the exception raised
ToolActionOf(action, tool, tool_input, output) ==
    [raised |-> "", action |-> action, tool |-> tool, tool_input |-> tool_input,
     output |-> output]
ParseRaised(exc) ==
    [raised |-> exc, action |-> "", tool |-> "", tool_input |-> "empty", output |-> ""]

\* _parse_action (lines 162-176)
_parse_action(content) ==
    IF content.json = "invalid" THEN ParseRaised("ToolAgentError")
    ELSE IF content.json = "list" THEN ParseRaised("AttributeError")
    ELSE IF content.action = "call_tool"
         THEN ToolActionOf("call_tool", content.tool, content.input, "")
    ELSE IF content.action = "finish"
         THEN ToolActionOf("finish", "", "empty",
                           IF content.output \in {"absent", "null"} THEN ""
                           ELSE content.output)
    ELSE ParseRaised("ToolAgentError")

\* _execute_tool (lines 90-109): the handler is invoked only for a known tool
\* with a non-empty input
HandlerInvoked(action) ==
    /\ action.tool # "" /\ action.tool_input # "empty"
    /\ action.tool \in {"list_markets", "get_market"}

\* mutant: a finish reply ends the loop whatever its output
Finishes_AnyOutput(action) == action.action = "finish"

\* line 86: action.action == "finish" and action.output
Finishes(action) == action.action = "finish" /\ action.output # ""

RunReturned(output) == [kind |-> "return", value |-> output]
RunRaised(exc) == [kind |-> "raise", value |-> exc]

InitAgentVars ==
    /\ _max_steps \in 0..MaxSteps
    /\ apc = "loop"
    /\ messages = <<"system", "user">>
    /\ round_trips = 0
    /\ replies = <<>>
    /\ tool_runs = <<>>
    /\ run_result = None

IdleAgentVars ==
    /\ _max_steps = 0
    /\ apc = "idle"
    /\ messages = <<>>
    /\ round_trips = 0
    /\ replies = <<>>
    /\ tool_runs = <<>>
    /\ run_result = None

\* _chat raises: the HTTP exchange gave no content (lines 142-159)
ChatFails ==
    /\ UNCHANGED notAgent
    /\ apc = "loop" /\ round_trips < _max_steps
    /\ \E chat \in ChatOutcomes \ {"content"} :
          run_result' = Some(RunRaised(IF chat = "network_error" THEN "RequestException"
                                       ELSE "ToolAgentError"))
    /\ round_trips' = round_trips + 1
    /\ apc' = "done"
    /\ UNCHANGED <<_max_steps, messages, replies, tool_runs>>

\* one iteration of the loop of run (lines 73-87) whose _chat gave a reply
AgentStep ==
    /\ UNCHANGED notAgent
    /\ apc = "loop" /\ round_trips < _max_steps
    /\ round_trips' = round_trips + 1
    /\ \E reply \in Replies, handler \in HandlerOutcomes :
          LET action == _parse_action(reply)
          IN /\ replies' = Append(replies, reply)
             /\ IF action.raised # ""
                THEN /\ run_result' = Some(RunRaised(action.raised))
                     /\ apc' = "done"
                     /\ tool_runs' = Append(tool_runs, 0)
                     /\ handler = "result"
                     /\ UNCHANGED messages
                ELSE IF action.action = "call_tool"
                THEN /\ messages' = messages \o <<"assistant", "user">>
                     /\ tool_runs' = Append(tool_runs, IF HandlerInvoked(action) THEN 1 ELSE 0)
                     /\ HandlerInvoked(action) \/ handler = "result"
                     /\ UNCHANGED <<apc, run_result>>
                ELSE /\ messages' = Append(messages, "assistant")
                     /\ tool_runs' = Append(tool_runs, 0)
                     /\ handler = "result"
                     /\ IF Finishes(action)
                        THEN run_result' = Some(RunReturned(action.output)) /\ apc' = "done"
                        ELSE UNCHANGED <<apc, run_result>>
    /\ UNCHANGED _max_steps

\* line 88: the loop ran out of steps
RaiseStepLimit ==
    /\ UNCHANGED notAgent
    /\ apc = "loop" /\ round_trips = _max_steps
    /\ run_result' = Some(RunRaised("ToolAgentError: step limit"))
    /\ apc' = "done"
    /\ UNCHANGED <<_max_steps, messages, round_trips, replies, tool_runs>>

NextAgent == ChatFails \/ AgentStep \/ RaiseStepLimit

-----------------------------------------------------------------------------
(* Specifications *)

InitGuard ==
    /\ InitGuardVars /\ IdleResolverVars /\ IdleAggVars /\ IdleManifoldVars
    /\ IdleSignerVars /\ IdleNormVars /\ IdleClientVars /\ IdleMarketVars
    /\ IdleRunnerVars /\ IdleAgentVars
InitResolver ==
    /\ IdleGuardVars /\ InitResolverVars /\ IdleAggVars /\ IdleManifoldVars
    /\ IdleSignerVars /\ IdleNormVars /\ IdleClientVars /\ IdleMarketVars
    /\ IdleRunnerVars /\ IdleAgentVars
InitAgg ==
    /\ IdleGuardVars /\ IdleResolverVars /\ InitAggVars /\ IdleManifoldVars
    /\ IdleSignerVars /\ IdleNormVars /\ IdleClientVars /\ IdleMarketVars
    /\ IdleRunnerVars /\ IdleAgentVars
InitManifold ==
    /\ IdleGuardVars /\ IdleResolverVars /\ IdleAggVars /\ InitManifoldVars
    /\ IdleSignerVars /\ IdleNormVars /\ IdleClientVars /\ IdleMarketVars
    /\ IdleRunnerVars /\ IdleAgentVars
InitSigner ==
    /\ IdleGuardVars /\ IdleResolverVars /\ IdleAggVars /\ IdleManifoldVars
    /\ InitSignerVars /\ IdleNormVars /\ IdleClientVars /\ IdleMarketVars
    /\ IdleRunnerVars /\ IdleAgentVars
InitNorm ==
    /\ IdleGuardVars /\ IdleResolverVars /\ IdleAggVars /\ IdleManifoldVars
    /\ IdleSignerVars /\ InitNormVars /\ IdleClientVars /\ IdleMarketVars
    /\ IdleRunnerVars /\ IdleAgentVars
InitClient ==
    /\ IdleGuardVars /\ IdleResolverVars /\ IdleAggVars /\ IdleManifoldVars
    /\ IdleSignerVars /\ IdleNormVars /\ InitClientVars /\ IdleMarketVars
    /\ IdleRunnerVars /\ IdleAgentVars
InitMarket ==
    /\ IdleGuardVars /\ IdleResolverVars /\ IdleAggVars /\ IdleManifoldVars
    /\ IdleSignerVars /\ IdleNormVars /\ IdleClientVars /\ InitMarketVars
    /\ IdleRunnerVars /\ IdleAgentVars
InitRunner ==
    /\ IdleGuardVars /\ IdleResolverVars /\ IdleAggVars /\ IdleManifoldVars
    /\ IdleSignerVars /\ IdleNormVars /\ IdleClientVars /\ IdleMarketVars
    /\ InitRunnerVars /\ IdleAgentVars
InitAgent ==
    /\ IdleGuardVars /\ IdleResolverVars /\ IdleAggVars /\ IdleManifoldVars
    /\ IdleSignerVars /\ IdleNormVars /\ IdleClientVars /\ IdleMarketVars
    /\ IdleRunnerVars /\ InitAgentVars

SpecGuard == InitGuard /\ [][NextGuard]_vars
SpecResolver == InitResolver /\ [][NextResolver]_vars
SpecAgg == InitAgg /\ [][NextAgg]_vars
SpecManifold == InitManifold /\ [][NextManifold]_vars
SpecSigner == InitSigner /\ [][NextSigner]_vars
SpecNormalizer == InitNorm /\ [][NextNorm]_vars
SpecClient == InitClient /\ [][NextClient]_vars
SpecMarket == InitMarket /\ [][NextMarket]_vars
SpecRunner == InitRunner /\ [][NextRunner]_vars
\* every call of _chat and every tool handler returns or raises, so the loop
\* keeps taking steps while it can
SpecAgent == InitAgent /\ [][NextAgent]_vars /\ WF_vars(NextAgent)

-----------------------------------------------------------------------------
(* Claims about the order guard, checked under SpecGuard *)

\* the guard has run in this invocation
Sized == ~IsNone(decision)
TheSnapshot == Get(snapshot)
TheDecision == Get(decision)

\* the shares the intent asks for, when it gives a size
RequestedBuyShares ==
    IF ~IsNone(intent.shares) THEN Get(intent.shares)
    ELSE Get(intent.stake_usd) \div intent.price

\* notional <= cash_balance * maxOrderFraction, with a positive cash balance
WithinBankroll(shares) ==
    /\ ~IsNone(TheSnapshot.cash_balance)
    /\ Get(TheSnapshot.cash_balance) > 0
    /\ shares * intent.price * FracDen <= Get(TheSnapshot.cash_balance) * MaxFraction(env)

\* sum of the shares of the snapshot positions matching the intent
OwnedByIntent ==
    LET ps == TheSnapshot.positions
        Matches(i) == /\ ps[i].market_id = intent.market_id
                      /\ Lower(Strip(ps[i].outcome)) = Lower(Strip(intent.outcome))
        Sum[i \in 0..Len(ps)] ==
            IF i = 0 THEN 0 ELSE Sum[i - 1] + (IF Matches(i) THEN ps[i].shares ELSE 0)
    IN Sum[Len(ps)]

\* C1: a BUY is approved only with a positive cash balance and a notional
\* (shares * price) of at most cash_balance * maxOrderFraction; a sized BUY with
\* missing or non-positive cash, or a notional above that cap, is rejected.
C1_BuyWithinBankroll ==
    (Sized /\ intent.side = "BUY") =>
        /\ TheDecision.ok =>
              /\ TheDecision.notional = TheDecision.shares * intent.price
              /\ WithinBankroll(TheDecision.shares)
        /\ (~IsNone(intent.shares) \/ ~IsNone(intent.stake_usd))
              => (TheDecision.ok <=> WithinBankroll(RequestedBuyShares))

\* a BUY was approved with a notional of exactly cash_balance * 0.5
C1_Witness ==
    /\ Sized /\ intent.side = "BUY" /\ TheDecision.ok
    /\ IsNone(env.AGENT_MAX_ORDER_FRACTION)
    /\ TheDecision.notional * FracDen = Get(TheSnapshot.cash_balance) * DefaultMaxFraction

\* C2: a SELL is approved only if owned > 0 and shares - owned <= 1e-6, owned
\* being the sum of the shares of the positions matching market and outcome.
C2_SellWithinInventory ==
    (Sized /\ intent.side = "SELL" /\ TheDecision.ok) =>
        /\ OwnedByIntent > 0
        /\ TheDecision.shares - OwnedByIntent <= SellTolerance

\* a SELL of exactly owned + 1e-6 shares was approved
C2_Witness ==
    /\ Sized /\ intent.side = "SELL" /\ TheDecision.ok
    /\ TheDecision.shares = OwnedByIntent + SellTolerance

\* C3: an order is posted only after the snapshot was fetched and the guard
\* approved; it carries the approved shares and respects bankroll (BUY) or
\* inventory (SELL); after a rejecting side, price, size, bankroll or inventory
\* check no order was posted.
C3_OrderOnlyAfterGuard ==
    /\ orders # <<>> =>
          /\ Len(orders) = 1
          /\ ~IsNone(snapshot) /\ Sized /\ TheDecision.ok
          /\ orders[1].size = TheDecision.shares
          /\ orders[1].side = intent.side
          /\ intent.side \in {"BUY", "SELL"}
          /\ intent.price > 0 /\ intent.price < PriceDen
          /\ intent.side = "BUY" => WithinBankroll(orders[1].size)
          /\ intent.side = "SELL" =>
                OwnedByIntent > 0 /\ orders[1].size - OwnedByIntent <= SellTolerance
          /\ \E i, j \in DOMAIN netlog :
                i < j /\ netlog[i] = "portfolio" /\ netlog[j] = "post_order"
    /\ (Sized /\ ~TheDecision.ok) => (orders = <<>> /\ pc = "raised")
    /\ IsNone(snapshot) => orders = <<>>

\* an approved SELL was posted
C3_Witness ==
    /\ pc = "done" /\ Len(orders) = 1 /\ intent.side = "SELL"
    /\ orders[1].size = TheDecision.shares

\* C4: a SELL that supplies only stake_usd and no shares is rejected.
C4_SellNeedsShares ==
    (Sized /\ intent.side = "SELL" /\ IsNone(intent.shares) /\ ~IsNone(intent.stake_usd))
        => ~TheDecision.ok

\* C12: for BUY and SELL an order whose price is not strictly inside (0, 1) is
\* rejected, before the portfolio is fetched and before any order is posted.
C12_PriceRejectedBeforeFetch ==
    (intent.price <= 0 \/ intent.price >= PriceDen) =>
        /\ pc \in {"start", "raised"}
        /\ netlog = <<>> /\ IsNone(snapshot) /\ orders = <<>>

\* a SELL at price 1.0 passed the wallet, market id and side checks and was
\* rejected by the price check
C12_Witness ==
    /\ pc = "raised" /\ error = "price must be between 0 and 1."
    /\ intent.side = "SELL" /\ intent.price = PriceDen
    /\ netlog = <<>>

\* C13: a BUY with neither shares nor stake is rejected for the missing size;
\* a BUY with only a stake is sized as shares = stake / price; stake 100 at
\* price 0.5 with cash 150 and fraction 0.5 is sized as 200 shares (notional
\* 100) and rejected citing the cap of 75.
C13_BuySizing ==
    (Sized /\ intent.side = "BUY") =>
        /\ (IsNone(intent.shares) /\ IsNone(intent.stake_usd)) =>
              /\ ~TheDecision.ok
              /\ TheDecision.reason = "Provide shares or stake_usd for BUY orders."
        /\ (IsNone(intent.shares) /\ ~IsNone(intent.stake_usd) /\ TheDecision.ok) =>
              /\ TheDecision.shares * intent.price <= Get(intent.stake_usd)
              /\ Get(intent.stake_usd) < (TheDecision.shares + 1) * intent.price
        /\ (/\ IsNone(intent.shares) /\ intent.stake_usd = Some(100 * Dollar)
            /\ 2 * intent.price = PriceDen
            /\ TheSnapshot.cash_balance = Some(150 * Dollar)
            /\ IsNone(env.AGENT_MAX_ORDER_FRACTION)) =>
              /\ ~TheDecision.ok
              /\ TheDecision.cited
                    = Some(<<200 * ShareScale * intent.price, 75 * Dollar * FracDen>>)

\* the BUY of stake 100 at 0.5 against cash 150 was sized and rejected
C13_Witness ==
    /\ Sized /\ intent.side = "BUY" /\ ~TheDecision.ok
    /\ IsNone(intent.shares) /\ intent.stake_usd = Some(100 * Dollar)
    /\ 2 * intent.price = PriceDen
    /\ TheSnapshot.cash_balance = Some(150 * Dollar)
    /\ IsNone(env.AGENT_MAX_ORDER_FRACTION)

\* C14: the guard step issues no network call, leaves snapshot, intent and
\* configuration unchanged, yields the decision that is a function of
\* (intent, snapshot, fraction), and a rejection by validation or by the guard
\* changes neither the snapshot nor the orders.
C14_GuardIsPure ==
    [][/\ pc = "size" =>
            /\ snapshot' = snapshot /\ netlog' = netlog /\ orders' = orders
            /\ env' = env /\ intent' = intent
            /\ decision' = Some(_determine_order_size(
                                    intent.side, intent.price, intent.shares,
                                    intent.stake_usd, Get(snapshot), intent.market_id,
                                    intent.outcome, MaxFraction(env)))
       /\ (pc \in {"start", "size"} /\ pc' = "raised") =>
            (snapshot' = snapshot /\ orders' = orders /\ netlog' = netlog)]_vars

\* the guard approved a BUY and the snapshot still holds its cash
C14_Witness ==
    /\ Sized /\ TheDecision.ok /\ intent.side = "BUY" /\ pc = "token"
    /\ TheSnapshot.cash_balance = Some(150 * Dollar)
    /\ netlog = <<"portfolio">> /\ orders = <<>>

\* C15: an order placement whose trading credentials are missing issues no
\* network request.
C15_NoRequestWithoutCredentials ==
    (pc # "idle" /\ ~HasTradingCreds(env)) => netlog = <<>>

\* sum of the shares of the snapshot positions whose market id and outcome both
\* equal the intent's ignoring letter case
OwnedIgnoringCase ==
    LET ps == TheSnapshot.positions
        Matches(i) == /\ Lower(ps[i].market_id) = Lower(intent.market_id)
                      /\ Lower(Strip(ps[i].outcome)) = Lower(Strip(intent.outcome))
        Sum[i \in 0..Len(ps)] ==
            IF i = 0 THEN 0 ELSE Sum[i - 1] + (IF Matches(i) THEN ps[i].shares ELSE 0)
    IN Sum[Len(ps)]

\* C21: for a SELL, owned is the sum over the positions whose market id and
\* outcome equal the intent's ignoring letter case, so a SELL giving shares is
\* approved exactly when that sum is positive and covers the shares.
C21_OwnedIgnoresMarketIdCase ==
    (Sized /\ intent.side = "SELL" /\ ~IsNone(intent.shares)) =>
        (TheDecision.ok <=> /\ OwnedIgnoringCase > 0
                            /\ Get(intent.shares) - OwnedIgnoringCase <= SellTolerance)

-----------------------------------------------------------------------------
(* Claims about the endpoint resolver, checked under SpecResolver *)

Returned == rpc = "done" /\ ~IsNone(result)
TheResult == Get(result)

\* every public candidate occurs among the requests issued
AllCandidatesRequested == \A i \in DOMAIN Candidates : InSeq(Candidates[i], reqlog)

\* C5: with responses [A: 404, B: 500, C: 200] the snapshot of C is returned and
\* nothing is requested after C; a non-2xx status other than 404/405 is recorded
\* and the later candidates are still tried.
C5_LaterCandidatesTriedAfterHttpError ==
    Returned =>
        /\ TheResult.kind = "snapshot" =>
              (last_status = Some("200") /\ TheResult.url = reqlog[Len(reqlog)])
        /\ (TheResult.kind = "error" /\ last_status = Some("500")) => AllCandidatesRequested

\* C6: when every candidate failed the call raises one error, returns no
\* snapshot, and the error lists every URL requested during the invocation,
\* the authenticated ones included.
C6_ExhaustionListsEveryAttempt ==
    (Returned /\ pubIdx = Len(Candidates)) =>
        /\ TheResult.kind = "error"
        /\ \A i \in DOMAIN reqlog : InSeq(reqlog[i], TheResult.listed)

\* C7: a timeout or connection error at one candidate is not retried and does
\* not abort the resolution: the next candidate is tried, and no candidate is
\* requested more than once in an invocation.
C7_NetworkErrorMovesOn ==
    /\ Len(reqlog) <= Len(AuthPaths) + Len(Candidates)
    /\ (Returned /\ last_status = Some("neterr")) => AllCandidatesRequested

\* the URLs of the authenticated path candidates, in order
AuthUrls == [i \in DOMAIN AuthPaths |-> AuthUrl(AuthPaths[i])]

-----------------------------------------------------------------------------
(* Claims about the position aggregator, checked under SpecAgg *)

Built == ~IsNone(positions)
ThePositions == Get(positions)

\* the cost basis of the fills that are not sells, for a key
BuyOnlyBasis(key) ==
    LET j == AggIndex(buyOnly, key)
    IN IF j = 0 THEN None
       ELSE IF buyOnly[j].buy_shares > 0
            THEN Some(Ratio(buyOnly[j].buy_notional, buyOnly[j].buy_shares))
            ELSE None

\* equality of two Optional ratios as quotients
SameQuotient(a, b) ==
    IF IsNone(a) \/ IsNone(b) THEN a = b
    ELSE Get(a).num * Get(b).den = Get(b).num * Get(a).den

\* C8: no returned position has |netShares| < 1e-6.
C8_NoClosedPosition ==
    Built => \A i \in DOMAIN ThePositions : Abs(ThePositions[i].shares) >= ClosedThreshold

\* a key with a non-zero net below 1e-6 was folded and was left out of the
\* returned list, which holds another position
C8_Witness ==
    /\ Built /\ ThePositions # <<>>
    /\ \E k \in DOMAIN aggregates :
          /\ aggregates[k].shares # 0
          /\ Abs(aggregates[k].shares) < ClosedThreshold
          /\ \A i \in DOMAIN ThePositions :
                <<ThePositions[i].market_id, ThePositions[i].outcome>>
                    # <<aggregates[k].key[1], aggregates[k].outcome_label>>

\* C9: the avgEntryPrice of every surviving key is the one the fills give with
\* all sells left out, wherever the sells stand in the sequence.
C9_BasisIgnoresSells ==
    Built =>
        \A k \in DOMAIN aggregates :
            Abs(aggregates[k].shares) >= ClosedThreshold =>
                \E i \in DOMAIN ThePositions :
                    /\ ThePositions[i] = PositionOf(aggregates[k], markets)
                    /\ SameQuotient(ThePositions[i].avg_price,
                                    BuyOnlyBasis(aggregates[k].key))

\* a position sold beyond the shares bought survives with its buy-only basis
C9_Witness ==
    /\ Built /\ sawSell
    /\ \E i \in DOMAIN ThePositions :
          ThePositions[i].shares < 0 /\ ~IsNone(ThePositions[i].avg_price)

\* C10: when no fill has a negative amount, every position has
\* avgEntryPrice = buyNotional / buyShares and netShares = buyShares.
C10_NoSellsNetEqualsBuys ==
    (Built /\ ~sawSell) =>
        \A k \in DOMAIN aggregates :
            Abs(aggregates[k].shares) >= ClosedThreshold =>
                /\ aggregates[k].shares = aggregates[k].buy_shares
                /\ \E i \in DOMAIN ThePositions :
                      /\ ThePositions[i] = PositionOf(aggregates[k], markets)
                      /\ ThePositions[i].avg_price
                            = Some(Ratio(aggregates[k].buy_notional, aggregates[k].buy_shares))

\* sign(x)
Sign(x) == IF x > 0 THEN 1 ELSE IF x < 0 THEN -1 ELSE 0

\* sign(signedAmount) * shares, the delta the fill is said to contribute
SignedDelta(bet) == Sign(bet.amount) * bet.shares

\* the market of the fill was loaded and is not resolved
OpenMarket(bet) == bet.contractId \in DOMAIN markets /\ ~markets[bet.contractId].isResolved

\* sum of the said deltas over the consumed fills of a key, the fills of closed
\* markets and the deltas below 1e-9 left out
SignedNet(key) ==
    LET Counts(i) == /\ OpenMarket(bets[i]) /\ BetKey(bets[i]) = key
                     /\ Abs(SignedDelta(bets[i])) >= NoiseThreshold
        Sum[i \in 0..Len(bets)] ==
            IF i = 0 THEN 0
            ELSE Sum[i - 1] + (IF Counts(i) THEN SignedDelta(bets[i]) ELSE 0)
    IN Sum[Len(bets)]

\* the net shares the fold holds for a key, 0 when the key has no aggregate
FoldedNet(key) ==
    LET j == AggIndex(aggregates, key) IN IF j = 0 THEN 0 ELSE aggregates[j].shares

\* C22: after the fold the net shares of every key equal the sum of
\* sign(signedAmount) * shares over its fills, so a fill with signedAmount = 0
\* contributes nothing.
C22_NetIsSumOfSignedDeltas ==
    Built => \A i \in DOMAIN bets :
                OpenMarket(bets[i]) => FoldedNet(BetKey(bets[i])) = SignedNet(BetKey(bets[i]))

\* the fill has no answerId and the loop does not skip it
FoldedByLabel(bet) == IsNone(bet.answerId) /\ ~Skipped(bet, markets)

\* C23: two fills of the same market without answerId whose outcome labels
\* differ only by letter case or surrounding whitespace are accumulated in the
\* same aggregate.
C23_LabelsFoldedIgnoringCase ==
    Built => \A i, j \in DOMAIN bets :
                (/\ FoldedByLabel(bets[i]) /\ FoldedByLabel(bets[j])
                 /\ bets[i].contractId = bets[j].contractId
                 /\ Lower(Strip(OutcomeName(bets[i]))) = Lower(Strip(OutcomeName(bets[j]))))
                    => AggIndex(aggregates, BetKey(bets[i]))
                           = AggIndex(aggregates, BetKey(bets[j]))

\* the consumed fills with those of resolved or unloaded markets removed
OpenFills == SelectSeq(bets, OpenMarket)

\* C24: a fill whose market is resolved or was not loaded contributes to no
\* position: the returned positions are those of the fills of the open markets
\* alone, and none of them is in a resolved or unloaded market.
C24_ClosedMarketFillsIgnored ==
    Built =>
        /\ ThePositions = _build_positions(OpenFills, markets)
        /\ \A i \in DOMAIN ThePositions :
              /\ ThePositions[i].market_id \in DOMAIN markets
              /\ ~markets[ThePositions[i].market_id].isResolved

\* positions were returned for fills among which one was of a resolved market
\* and one of a market that was not loaded, both large enough to stay open
C24_Witness ==
    /\ Built /\ ThePositions # <<>>
    /\ \E i, j \in DOMAIN bets :
          /\ bets[i].contractId \in DOMAIN markets
          /\ markets[bets[i].contractId].isResolved
          /\ bets[i].shares >= ClosedThreshold
          /\ bets[j].contractId \notin DOMAIN markets
          /\ bets[j].shares >= ClosedThreshold

\* C27: the returned list holds at most one position for each pair of market
\* id and outcome label.
C27_OnePositionPerOutcome ==
    Built => \A i, j \in DOMAIN ThePositions :
                (/\ ThePositions[i].market_id = ThePositions[j].market_id
                 /\ ThePositions[i].outcome = ThePositions[j].outcome) => i = j

-----------------------------------------------------------------------------
(* Claims about the Manifold API helpers, checked under SpecManifold *)

MDone == mpc = "done" /\ ~IsNone(mresult)
TheMResult == Get(mresult)

\* C11: when the detail request of one market fails (HTTP error status or
\* network error) only that market is left out: the call still returns the
\* map of every market whose request answered with a payload.
C11_FailedLookupSkipsOnlyThatMarket ==
    (MDone /\ mcall.op = "markets" /\ mkey) =>
        /\ TheMResult.kind = "map"
        /\ \A i \in DOMAIN mreqs :
              mreqs[i].status \in {"200id", "200noid"}
                  => InSeq(mreqs[i].path[2], TheMResult.map)

\* C20: when /market/{identifier} fails with an HTTP error status the
\* /slug/{identifier} candidate is requested next, and its payload is returned
\* if it carries an id.
C20_SlugTriedAfterMarketFails ==
    (/\ MDone /\ mcall.op = "details"
     /\ mreqs # <<>> /\ mreqs[1].status \in {"404", "500"}) =>
        /\ Len(mreqs) = 2
        /\ mreqs[2].path = <<"/slug/", mcall.ids[1]>>
        /\ mreqs[2].status = "200id" => TheMResult.kind = "payload"

-----------------------------------------------------------------------------
(* Claims about the signed client, checked under SpecSigner *)

\* C16: every request carries the timestamp of the moment it was sent, in both
\* header schemes, and one signature in both schemes, which is the signature
\* of that timestamp, the upper-cased method, the request path and the body;
\* a later request never carries the timestamp of an earlier second.
C16_FreshTimestampSigned ==
    /\ \A i \in DOMAIN sent :
          LET r == sent[i]
          IN /\ r.X_API_TIMESTAMP = Str(r.time)
             /\ r.POLY_TIMESTAMP = Str(r.time)
             /\ r.X_API_SIGNATURE = r.POLY_SIGNATURE
             /\ r.POLY_SIGNATURE =
                   <<"hmac_sha256", sclient.api_secret,
                     Str(r.time) \o r.method \o r.path \o BodyText(r.data)>>
             /\ r.method = Upper(r.method)
    /\ \A i, j \in DOMAIN sent :
          (i < j /\ sent[i].time < sent[j].time) =>
              /\ sent[j].POLY_TIMESTAMP # sent[i].POLY_TIMESTAMP
              /\ sent[j].POLY_SIGNATURE # sent[i].POLY_SIGNATURE

\* the same GET was sent twice, two seconds apart, across the change from a
\* one-digit to a two-digit clock reading
C16_Witness ==
    /\ Len(sent) = 2
    /\ sent[1].time = Epoch /\ sent[2].time = Epoch + 2
    /\ sent[1].method = sent[2].method /\ sent[1].path = sent[2].path
    /\ sent[1].data = sent[2].data
    /\ sent[2].X_API_SIGNATURE # sent[1].X_API_SIGNATURE

-----------------------------------------------------------------------------
(* Claims about the market normalisers, checked under SpecNormalizer *)

Marked == ~IsNone(nout) /\ Get(nout).fn = "_mark_price"
TheMark == Get(nout).prices[1]

\* the answer text equals the label, case and surrounding blanks aside
TextMatches(answer, label) ==
    Strip(answer.text) # <<>> /\ Lower(Strip(answer.text)) = Lower(Strip(label))

\* C17: for a MULTI market the mark price is the probability of the (first)
\* answer whose text equals the label case-insensitively, so answers Yes: 0.7,
\* No: 0.3 and label "no" give 0.3; for a BINARY market with probability p it
\* is clamp(p) for YES and 1 - clamp(p) for NO.
C17_MarkPriceResolution ==
    Marked =>
        /\ npayload.outcomeType = "MULTIPLE_CHOICE" =>
              \A k \in DOMAIN npayload.answers :
                  (/\ TextMatches(npayload.answers[k], nlabel)
                   /\ \A h \in 1..(k - 1) : ~TextMatches(npayload.answers[h], nlabel))
                      => TheMark = npayload.answers[k].probability
        /\ (npayload.outcomeType = "BINARY" /\ ~IsNone(npayload.probability)) =>
              LET p == Get(npayload.probability)
                  clamped == IF p < 0 THEN 0 ELSE IF p > ProbDen THEN ProbDen ELSE p
              IN /\ Upper(Strip(nlabel)) = S_YES => TheMark = Some(clamped)
                 /\ Upper(Strip(nlabel)) = S_NO => TheMark = Some(ProbDen - clamped)

\* answers Yes: 0.7, No: 0.3 of a MULTI market and the label "no" gave 0.3
C17_Witness ==
    /\ Marked /\ npayload.outcomeType = "MULTIPLE_CHOICE"
    /\ Len(npayload.answers) = 2
    /\ npayload.answers[1].text = S_Yes /\ npayload.answers[1].probability = Some(7)
    /\ npayload.answers[2].text = S_No /\ npayload.answers[2].probability = Some(3)
    /\ nlabel = S_no
    /\ TheMark = Some(3)

\* C18: every probability the normalisers emit lies in [0, 1].
C18_ProbabilitiesClamped ==
    ~IsNone(nout) =>
        \A i \in DOMAIN Get(nout).prices :
            LET v == Get(nout).prices[i]
            IN IsNone(v) \/ (0 <= Get(v) /\ Get(v) <= ProbDen)

-----------------------------------------------------------------------------
(* Claims about the connector client, checked under SpecClient *)

\* C19: after any sequence of _get calls the ordered list of API roots the
\* next call will try is the one the client had at construction.
C19_RootsAsConstructed ==
    _active_root # <<>> => _candidate_roots(_active_root, _fallback_root) = roots0

-----------------------------------------------------------------------------
(* Claims about the market normaliser, checked under SpecMarket *)

Normalized == ~IsNone(normalized)
TheMarket == Get(normalized)
TheSource == _flatten_market_payload(cpayload)

\* the identifier fields in the stated priority order: id, marketId,
\* conditionId, condition_id, questionId (read as question_id, the spelling
\* line 169 reads), marketHash, fpmm.conditionId, the token records'
\* conditionId and tokenId, slug
StatedIdCandidates ==
    LET fpmm == DictGet(TheSource, "fpmm")
        tokens == DictGet(TheSource, "tokens")
        OfTokens[i \in 0..(IF tokens.t = "list" THEN Len(tokens.items) ELSE 0)] ==
            IF i = 0 THEN <<>>
            ELSE OfTokens[i - 1]
                   \o (IF tokens.items[i].t = "dict"
                       THEN ValuesOf(tokens.items[i], <<"conditionId", "tokenId">>)
                       ELSE <<>>)
    IN ValuesOf(TheSource, <<"id", "marketId", "conditionId", "condition_id",
                             "question_id", "marketHash">>)
          \o (IF fpmm.t = "dict" THEN <<DictGet(fpmm, "conditionId")>> ELSE <<>>)
          \o OfTokens[IF tokens.t = "list" THEN Len(tokens.items) ELSE 0]
          \o <<DictGet(TheSource, "slug")>>

\* the payload carries identifiers under the stated fields only
OnlyStatedIdFields ==
    \A k \in {"questionId", "_id", "market_slug"} : DictGet(TheSource, k) = PyNone

\* C25: the market id is the first non-empty value in the order id, marketId,
\* conditionId/condition_id, questionId, marketHash, fpmm.conditionId, token
\* conditionId/tokenId, slug; a payload with none of them makes
\* _normalize_market raise.
C25_IdPriorityOrder ==
    (Normalized /\ OnlyStatedIdFields) =>
        LET i == FirstTruthyIndex(StatedIdCandidates)
        IN IF i = 0 THEN TheMarket.raised = "PolymarketAPIError"
           ELSE TheMarket.raised = "" /\ TheMarket.id = PyText(StatedIdCandidates[i])

\* the price of the first entry of an outcome mapping or list whose name is
\* one of yes, y, 1, up, true ignoring letter case; None when there is none
StatedYesPrice(outcomes) ==
    LET items == IF outcomes.t \in {"dict", "list"} THEN outcomes.items ELSE <<>>
        price(i) ==
            IF outcomes.t = "dict"
            THEN (IF Lower(items[i][1]) \in YesNames THEN Float(items[i][2]) ELSE None)
            ELSE IF items[i].t = "dict"
                    /\ Lower(NameText(PyOr(PyOr(DictGet(items[i], "name"),
                                                DictGet(items[i], "outcome")),
                                           PyStr(<<>>)))) \in YesNames
                 THEN FirstFloat(items[i], <<"price", "probability", "p">>)
                 ELSE None
    IN IF \E i \in DOMAIN items : ~IsNone(price(i))
       THEN price(CHOOSE i \in DOMAIN items :
                     ~IsNone(price(i)) /\ \A j \in 1..(i - 1) : IsNone(price(j)))
       ELSE None

\* the probability as stated: the first usable direct scalar, else the price
\* of the yes entry, else 0.0
StatedProbability ==
    LET direct == FirstFloat(TheSource, ScalarKeys)
        yes == StatedYesPrice(PyOr(DictGet(TheSource, "outcomePrices"),
                                   DictGet(TheSource, "outcomes")))
    IN IF ~IsNone(direct) THEN Get(direct)
       ELSE IF ~IsNone(yes) THEN Get(yes)
       ELSE 0

\* C26: the probability of a payload is the first usable direct scalar in the
\* order probability, pYes, yesPrice, mid, price, lastPrice, bestBid,
\* impliedProbability, else the price of the outcome entry named yes, y, 1, up
\* or true ignoring case (list or mapping), else 0.0; nothing is raised.
C26_ProbabilityResolution ==
    (Normalized /\ ~IsNone(_extract_market_id(TheSource))) =>
        /\ TheMarket.raised = ""
        /\ TheMarket.probability = StatedProbability

-----------------------------------------------------------------------------
(* Claims about the multi-agent runner, checked under SpecRunner *)

\* the session of the current agent is running
InSession == runpc = "session"
\* no session is open: before an agent starts or after its with block was left
OutsideSession == runpc \in {"resolve", "persist", "done", "raised"}

-----------------------------------------------------------------------------
(* Claims about the tool agent loop, checked under SpecAgent *)

AgentDone == apc = "done" /\ ~IsNone(run_result)
TheRun == Get(run_result)

\* the reply leaves the loop running: a tool call, or a finish without output
KeepsLooping(reply) ==
    /\ reply.json = "object"
    /\ \/ reply.action = "call_tool"
       \/ reply.action = "finish" /\ reply.output \in {"absent", "null", ""}

=============================================================================
